---- MODULE Spec2Model ----
(***************************************************************************)
(* Model of the URL feature pipeline of WebsitePhishingDetection:          *)
(*   Data_Collection/data_collector.py       URLFeatureCollector           *)
(*   Data_Collection/Collectors/*.py         the source adapters           *)
(*   Data_Collection/feature_derivation.py   the derivation engine         *)
(*   Webapp/model_feature_predict.py         the shared collector          *)
(*   Webapp/analyze_url.py                   the analysis report           *)
(* Strings are sequences of one-character strings, so that parsing,        *)
(* normalisation and substring tests are computed and not assumed.         *)
(***************************************************************************)
EXTENDS Integers, Sequences, FiniteSets, TLC

(***************************************************************************)
(* Python values held in feature mappings.  Every value is a record with   *)
(* the same fields, so that an int, a str, a list and None compare.        *)
(***************************************************************************)
None == [kind |-> "none", n |-> 0, d |-> 1, s |-> <<>>, l |-> {}]
I(n) == [kind |-> "int", n |-> n, d |-> 1, s |-> <<>>, l |-> {}]
F(n, d) == [kind |-> "float", n |-> n, d |-> d, s |-> <<>>, l |-> {}]
S(s) == [kind |-> "str", n |-> 0, d |-> 1, s |-> s, l |-> {}]
L(l) == [kind |-> "list", n |-> 0, d |-> 1, s |-> <<>>, l |-> l]
B(b) == I(IF b THEN 1 ELSE 0)

\* A value the model does not compute (a date, an entropy, a fitted slope).
Opaque == [kind |-> "number", n |-> 0, d |-> 1, s |-> <<>>, l |-> {}]
\* A float that is not a finite number (nan, inf).
NaN == [kind |-> "nan", n |-> 0, d |-> 1, s |-> <<>>, l |-> {}]
Range(s) == {s[i] : i \in 1..Len(s)}
\* With(v, Op) is Op(v) with v computed once: Python's "name = v" before a block.
With(v, Op(_)) == CHOOSE r \in {Op(x) : x \in {v}} : TRUE

(***************************************************************************)
(* Python dict: insertion-ordered sequence of <<key, value>> pairs.        *)
(***************************************************************************)
Keys(d) == {d[i][1] : i \in 1..Len(d)}
Has(d, k) == k \in Keys(d)
KeyIdx(d, k) == CHOOSE i \in 1..Len(d) : d[i][1] = k
Get(d, k, dflt) == IF Has(d, k) THEN d[KeyIdx(d, k)][2] ELSE dflt
Put(d, k, v) ==
    IF Has(d, k) THEN [d EXCEPT ![KeyIdx(d, k)] = <<k, v>>] ELSE Append(d, <<k, v>>)
\* dict.update: a key already present keeps its place, a new key is appended.
Update(d, e) ==
    [i \in 1..Len(d) |-> IF Has(e, d[i][1]) THEN <<d[i][1], Get(e, d[i][1], d[i][2])>> ELSE d[i]]
      \o SelectSeq(e, LAMBDA kv : ~Has(d, kv[1]))
Pop(d, k) == SelectSeq(d, LAMBDA kv : kv[1] # k)

(***************************************************************************)
(* str helpers.                                                            *)
(***************************************************************************)
LowerLetters ==
    {"a", "b", "c", "d", "e", "f", "g", "h", "i", "j", "k", "l", "m",
     "n", "o", "p", "q", "r", "s", "t", "u", "v", "w", "x", "y", "z"}
UpperLetters ==
    {"A", "B", "C", "D", "E", "F", "G", "H", "I", "J", "K", "L", "M",
     "N", "O", "P", "Q", "R", "S", "T", "U", "V", "W", "X", "Y", "Z"}
Digits == {"0", "1", "2", "3", "4", "5", "6", "7", "8", "9"}
LowerOf ==
    [c \in UpperLetters |->
       CASE c = "A" -> "a" [] c = "B" -> "b" [] c = "C" -> "c" [] c = "D" -> "d"
         [] c = "E" -> "e" [] c = "F" -> "f" [] c = "G" -> "g" [] c = "H" -> "h"
         [] c = "I" -> "i" [] c = "J" -> "j" [] c = "K" -> "k" [] c = "L" -> "l"
         [] c = "M" -> "m" [] c = "N" -> "n" [] c = "O" -> "o" [] c = "P" -> "p"
         [] c = "Q" -> "q" [] c = "R" -> "r" [] c = "S" -> "s" [] c = "T" -> "t"
         [] c = "U" -> "u" [] c = "V" -> "v" [] c = "W" -> "w" [] c = "X" -> "x"
         [] c = "Y" -> "y" [] c = "Z" -> "z"]
Lower(s) == [i \in 1..Len(s) |-> IF s[i] \in UpperLetters THEN LowerOf[s[i]] ELSE s[i]]
FirstIdx(s, C) ==
    LET idx == {i \in 1..Len(s) : s[i] \in C}
    IN  IF idx = {} THEN 0 ELSE CHOOSE i \in idx : \A j \in idx : i <= j
LastIdx(s, C) ==
    LET idx == {i \in 1..Len(s) : s[i] \in C}
    IN  IF idx = {} THEN 0 ELSE CHOOSE i \in idx : \A j \in idx : i >= j
StartsWith(s, p) == Len(s) >= Len(p) /\ SubSeq(s, 1, Len(p)) = p
Contains(s, p) == \E i \in 1..(Len(s) - Len(p) + 1) : SubSeq(s, i, i + Len(p) - 1) = p
From(s, i) == SubSeq(s, i, Len(s))
RECURSIVE Strip(_)
Strip(s) ==
    IF s # <<>> /\ s[1] = " " THEN Strip(Tail(s))
    ELSE IF s # <<>> /\ s[Len(s)] = " " THEN Strip(SubSeq(s, 1, Len(s) - 1))
    ELSE s
RECURSIVE Split(_, _)
Split(s, c) ==
    LET i == FirstIdx(s, {c})
    IN  IF i = 0 THEN <<s>> ELSE <<SubSeq(s, 1, i - 1)>> \o Split(From(s, i + 1), c)
RECURSIVE Join(_, _)
Join(parts, c) ==
    IF parts = <<>> THEN <<>>
    ELSE IF Len(parts) = 1 THEN parts[1]
    ELSE parts[1] \o <<c>> \o Join(Tail(parts), c)

(***************************************************************************)
(* urllib.parse.urlparse as the adapters use it: scheme, netloc, path,     *)
(* query, fragment; ok = FALSE stands for the ValueError it raises on a    *)
(* netloc with an unbalanced bracket.                                      *)
(***************************************************************************)
SchemeChars == LowerLetters \cup UpperLetters \cup Digits \cup {"+", "-", "."}
\* The index of the ":" that ends the scheme of u, 0 when u has no scheme.
SchemeEnd(u) ==
    With(FirstIdx(u, {":"}), LAMBDA colon :
      IF /\ colon > 1
         /\ u[1] \in LowerLetters \cup UpperLetters
         /\ \A i \in 1..(colon - 1) : u[i] \in SchemeChars
      THEN colon ELSE 0)
Before(s, i) == IF i = 0 THEN s ELSE SubSeq(s, 1, i - 1)
After(s, i) == IF i = 0 THEN <<>> ELSE From(s, i + 1)
Chars(s) == {s[i] : i \in 1..Len(s)}
\* rest is what follows the netloc: path, then "?" query, then "#" fragment.
UrlSplitRest(scheme, netloc, rest) ==
    With(Before(rest, FirstIdx(rest, {"#"})), LAMBDA r4 :
      [ok |-> ("[" \in Chars(netloc)) = ("]" \in Chars(netloc)),
       scheme |-> scheme,
       netloc |-> netloc,
       path |-> Before(r4, FirstIdx(r4, {"?"})),
       query |-> After(r4, FirstIdx(r4, {"?"})),
       fragment |-> After(rest, FirstIdx(rest, {"#"}))])
\* r1 is the URL after its scheme: "//" netloc up to the first of "/", "?", "#".
UrlSplitNetloc(scheme, r1) ==
    IF StartsWith(r1, <<"/", "/">>)
    THEN With(From(r1, 3), LAMBDA r2 :
           With(FirstIdx(r2, {"/", "?", "#"}), LAMBDA stop :
             UrlSplitRest(scheme, Before(r2, stop), IF stop = 0 THEN <<>> ELSE From(r2, stop))))
    ELSE UrlSplitRest(scheme, <<>>, r1)
urlparse(u) ==
    With(SchemeEnd(u), LAMBDA se :
      UrlSplitNetloc(IF se = 0 THEN <<>> ELSE Lower(Before(u, se)),
                     IF se = 0 THEN u ELSE From(u, se + 1)))

(***************************************************************************)
(* The input URLs.                                                         *)
(***************************************************************************)
UrlPlain == <<"h", "t", "t", "p", ":", "/", "/", "a", ".", "c", "o", "m">>
UrlFull ==
    <<"h", "t", "t", "p", ":", "/", "/", "w", "w", "w", ".", "b", ".", "n", "e", "t",
      "/", "p", "?", "q", "=", "1", "#", "f">>
UrlIp == <<"h", "t", "t", "p", ":", "/", "/", "1", ".", "2", ".", "3", ".", "4", "/", "x">>
UrlBracket == <<"h", "t", "t", "p", ":", "/", "/", "[", "a">>
Urls == {UrlPlain, UrlFull, UrlIp, UrlBracket}

(***************************************************************************)
(* tldextract.extract as parse_domain uses it: the host of the URL split   *)
(* into subdomain, domain and public suffix by the longest suffix match.   *)
(***************************************************************************)
PublicSuffixes ==
    {<<"c", "o", "m">>, <<"n", "e", "t">>, <<"u", "k">>, <<"c", "o", ".", "u", "k">>}
IsDigitStr(s) == s # <<>> /\ \A i \in 1..Len(s) : s[i] \in Digits
StripUserinfoPort(r2) ==
    With(After(r2, LastIdx(r2, {"@"})), LAMBDA afterAt :
      With(IF LastIdx(r2, {"@"}) = 0 THEN r2 ELSE afterAt, LAMBDA r3 :
        Before(r3, FirstIdx(r3, {":"}))))
LenientNetloc(u) ==
    With(SchemeEnd(u), LAMBDA se :
      With(IF se > 0 /\ StartsWith(From(u, se + 1), <<"/", "/">>) THEN From(u, se + 3)
           ELSE IF StartsWith(u, <<"/", "/">>) THEN From(u, 3) ELSE u, LAMBDA r1 :
        StripUserinfoPort(Before(r1, FirstIdx(r1, {"/", "?", "#"})))))
MinOf(ns, dflt) == IF ns = {} THEN dflt ELSE CHOOSE i \in ns : \A j \in ns : i <= j
\* si is the index of the first label of the public suffix, n + 1 when none matches.
ExtractResult(host, labels, si) ==
    IF Len(labels) = 4 /\ \A i \in 1..Len(labels) : IsDigitStr(labels[i])
    THEN [subdomain |-> <<>>, domain |-> host, suffix |-> <<>>]
    ELSE [subdomain |-> Join(SubSeq(labels, 1, si - 2), "."),
          domain |-> IF si >= 2 THEN labels[si - 1] ELSE <<>>,
          suffix |-> Join(SubSeq(labels, si, Len(labels)), ".")]
tldextract(u) ==
    With(LenientNetloc(u), LAMBDA host :
      With(Split(host, "."), LAMBDA labels :
        ExtractResult(host, labels,
                      MinOf({i \in 1..Len(labels) :
                               Lower(Join(SubSeq(labels, i, Len(labels)), "."))
                                 \in PublicSuffixes},
                            Len(labels) + 1))))

(***************************************************************************)
(* domain_whois.parse_domain                                               *)
(***************************************************************************)
NonEmpty(parts) == SelectSeq(parts, LAMBDA p : p # <<>>)
ParseDomainResult(u, extracted, base_domain) ==
    << <<"URL", S(u)>>,
       <<"Domain", S(base_domain)>>,
       <<"DomainLengthOfURL", I(Len(base_domain))>>,
       <<"IsDomainIP",
         B(\A seg \in Chars(Split(base_domain, ".")) : IsDigitStr(seg))>>,
       <<"TLD", S(extracted.suffix)>>,
       <<"TLDLength", I(IF extracted.suffix # <<>> THEN Len(extracted.suffix) ELSE 0)>>,
       <<"NumberOfSubdomains",
         I(IF extracted.subdomain # <<>>
           THEN Len(NonEmpty(Split(extracted.subdomain, "."))) ELSE 0)>> >>
parse_domain(u) ==
    With(tldextract(u), LAMBDA extracted :
      ParseDomainResult(u, extracted,
                        Join(NonEmpty(<<extracted.domain, extracted.suffix>>), ".")))

(***************************************************************************)
(* Static_content_extractor: URL structure, HTML structure, tags.          *)
(* A fetched document is held as what BeautifulSoup finds in it: the       *)
(* line lengths of the body, the tags counted, and the anchors with their  *)
(* href, target and onclick attributes.                                    *)
(***************************************************************************)
extract_url_structure(u) ==
    With(urlparse(u), LAMBDA parsed :
      [exc |-> ~parsed.ok,
       val |-> << <<"URL", S(u)>>,
                  <<"LengthOfURL", I(Len(u))>>,
                  <<"HavingPath", B(parsed.path # <<>> /\ parsed.path # <<"/">>)>>,
                  <<"PathLength", I(IF parsed.path # <<>> THEN Len(parsed.path) ELSE 0)>>,
                  <<"HavingQuery", B(parsed.query # <<>>)>>,
                  <<"HavingFragment", B(parsed.fragment # <<>>)>>,
                  <<"HavingAnchor", B(parsed.fragment # <<>>)>> >>])

MaxOf(ns) == IF ns = <<>> THEN 0 ELSE CHOOSE m \in Chars(ns) : \A k \in Chars(ns) : k <= m
extract_html_structure(doc) ==
    << <<"LineOfCode", I(Len(doc.lines))>>,
       <<"LongestLineLength", I(MaxOf(doc.lines))>> >>

\* a.get('href', '').strip(): an anchor without the attribute reads as ''.
AnchorHref(a) == Strip(IF a.hasHref THEN a.href ELSE <<>>)
HrefClass(href, parsed_href, base_domain) ==
    IF href \in {<<>>, <<"#">>} THEN "empty"
    ELSE IF ~parsed_href.ok THEN "raise"
    ELSE IF parsed_href.netloc = <<>> THEN "self"
    ELSE IF base_domain # <<>> /\ Contains(parsed_href.netloc, base_domain) THEN "self"
    ELSE "external"
AnchorClass(a, base_domain) ==
    With(AnchorHref(a), LAMBDA href : HrefClass(href, urlparse(href), base_domain))
\* The pop-up test is made in the branch of a non-empty href only.
AnchorPopup(a) ==
    /\ AnchorHref(a) \notin {<<>>, <<"#">>}
    /\ a.blank
    /\ a.open
CountOf(classes, c) == Cardinality({i \in 1..Len(classes) : classes[i] = c})
\* classes[i] is the class of the i-th anchor, popups[i] whether it counts as a pop-up.
MetaAndTags(doc, classes, popups) ==
    [exc |-> doc.unparsable \/ CountOf(classes, "raise") > 0,
     val |-> << <<"HasTitle", B(doc.title)>>,
                <<"HasFavicon", B(doc.icon)>>,
                <<"HasDescription", B(doc.description)>>,
                <<"HasRobotsBlocked", B(doc.noindex)>>,
                <<"CntImages", I(doc.img)>>,
                <<"CntFilesCSS", I(doc.css)>>,
                <<"CntFilesJS", I(doc.js)>>,
                <<"CntIFrame", I(doc.iframe)>>,
                <<"CntSelfHRef", I(CountOf(classes, "self"))>>,
                <<"CntEmptyRef", I(CountOf(classes, "empty"))>>,
                <<"CntExternalRef", I(CountOf(classes, "external"))>>,
                <<"CntPopup", I(CountOf(popups, TRUE))>>,
                <<"HasCopyrightInfoKey ", B(doc.copyright)>>,
                <<"HasBankingKey", B(doc.banking)>>,
                <<"HasPaymentKey", B(doc.payment)>>,
                <<"HasCryptoKey", B(doc.crypto)>>,
                <<"UniqueFeatureCnt",
                  I(B(doc.banking).n + B(doc.payment).n + B(doc.crypto).n
                      + B(doc.copyright).n)>> >>]
extract_meta_and_tags(doc, base_domain) ==
    MetaAndTags(doc,
                [i \in 1..Len(doc.anchors) |-> AnchorClass(doc.anchors[i], base_domain)],
                [i \in 1..Len(doc.anchors) |-> AnchorPopup(doc.anchors[i])])

\* resp is the outcome of requests.get(url, timeout=10): not ok, or a document.
\* A fetch failure that would store a default for every content-derived key.
StaticAfterFetchDefaults(features, u, resp) ==
    IF ~resp.ok
    THEN [exc |-> FALSE,
          val |-> Update(Put(features, "IsUnreachable", I(1)),
                         <<
                           <<"LineOfCode", I(0)>>, <<"LongestLineLength", I(0)>>, <<"HasTitle", I(0)>>, <<"HasFavicon", I(0)>>,
                           <<"HasDescription", I(0)>>, <<"HasRobotsBlocked", I(0)>>, <<"CntImages", I(0)>>, <<"CntFilesCSS", I(0)>>,
                           <<"CntFilesJS", I(0)>>, <<"CntIFrame", I(0)>>, <<"CntSelfHRef", I(0)>>, <<"CntEmptyRef", I(0)>>,
                           <<"CntExternalRef", I(0)>>, <<"CntPopup", I(0)>>, <<"HasCopyrightInfoKey ", I(0)>>, <<"HasBankingKey", I(0)>>,
                           <<"HasPaymentKey", I(0)>>, <<"HasCryptoKey", I(0)>>, <<"UniqueFeatureCnt", I(0)>> >>)]
    ELSE With(extract_meta_and_tags(resp.doc, urlparse(u).netloc), LAMBDA tags :
           IF tags.exc THEN [exc |-> TRUE, val |-> <<>>]
           ELSE [exc |-> FALSE,
                 val |-> Update(Update(Put(features, "IsUnreachable", I(0)),
                                       extract_html_structure(resp.doc)),
                                tags.val)])
StaticAfterFetch(features, u, resp) ==
    IF ~resp.ok THEN [exc |-> FALSE, val |-> Put(features, "IsUnreachable", I(1))]
    ELSE With(extract_meta_and_tags(resp.doc, urlparse(u).netloc), LAMBDA tags :
           IF tags.exc THEN [exc |-> TRUE, val |-> <<>>]
           ELSE [exc |-> FALSE,
                 val |-> Update(Update(Put(features, "IsUnreachable", I(0)),
                                       extract_html_structure(resp.doc)),
                                tags.val)])
extract_static_features(u, resp) ==
    With(extract_url_structure(u), LAMBDA structure :
      IF structure.exc THEN [exc |-> TRUE, val |-> <<>>]
      ELSE StaticAfterFetch(Update(<<>>, structure.val), u, resp))

(***************************************************************************)
(* ssl_hosting: format_domain_age and get_ssl_info.  tls is the outcome    *)
(* of the connection to port 443 of the site: up or not, and the days      *)
(* left on its certificate.  A name that is no host name (a full URL)      *)
(* never resolves.                                                         *)
(***************************************************************************)
DaysPerYear == 365
DaysPerMonth == 30
\* Division truncating towards zero, as in C: not what Python's // and % do.
format_domain_age_truncating(age_days) ==
    IF age_days >= 0
    THEN <<age_days \div DaysPerYear, (age_days % DaysPerYear) \div DaysPerMonth,
           (age_days % DaysPerYear) % DaysPerMonth>>
    ELSE <<-((-age_days) \div DaysPerYear), -(((-age_days) % DaysPerYear) \div DaysPerMonth),
           -(((-age_days) % DaysPerYear) % DaysPerMonth)>>
format_domain_age(age_days) ==
    With(age_days % DaysPerYear, LAMBDA remaining_days :
      <<age_days \div DaysPerYear, remaining_days \div DaysPerMonth,
        remaining_days % DaysPerMonth>>)
HostChars == LowerLetters \cup UpperLetters \cup Digits \cup {".", "-"}
IsHostName(h) == h # <<>> /\ \A i \in 1..Len(h) : h[i] \in HostChars
ErrorResult == << <<"error", S(<<"e", "r", "r">>)>> >>
get_ssl_info(domain, tls) ==
    IF ~(IsHostName(domain) /\ tls.up) THEN ErrorResult
    ELSE << <<"HasSSL", I(1)>>,
            <<"CertIssuer", S(<<"C", "A">>)>>,
            <<"ValidFrom", Opaque>>,
            <<"ValidTo", Opaque>>,
            <<"DaysUntilExpiry", I(tls.days)>>,
            <<"ValidityPeriod", L({format_domain_age(tls.days)})>> >>

(***************************************************************************)
(* dynamic_content_extractor.  br is the browser the adapter meets: the    *)
(* set of WebDriver calls that raise, and the rendered DOM.                *)
(***************************************************************************)
WwwDot == <<"w", "w", "w", ".">>
normalize_netloc(netloc) ==
    Strip(Lower(IF StartsWith(netloc, WwwDot) THEN From(netloc, Len(WwwDot) + 1) ELSE netloc))

\* urllib.parse.urljoin for the references met here: an absolute reference is kept,
\* a scheme-relative one takes the base's scheme, any other one the base's authority.
UrlJoined(b, ref) ==
    IF StartsWith(ref, <<"/", "/">>) THEN b.scheme \o <<":">> \o ref
    ELSE b.scheme \o <<":", "/", "/">> \o b.netloc
           \o (IF ref[1] \in {"/", "?", "#"} THEN <<>> ELSE <<"/">>) \o ref
urljoin(base, ref) ==
    IF ref = <<>> THEN base
    ELSE IF SchemeEnd(ref) # 0 THEN ref
    ELSE UrlJoined(urlparse(base), ref)

social_media_domains ==
    {<<"f", "a", "c", "e", "b", "o", "o", "k", ".", "c", "o", "m">>,
     <<"t", "w", "i", "t", "t", "e", "r", ".", "c", "o", "m">>,
     <<"i", "n", "s", "t", "a", "g", "r", "a", "m", ".", "c", "o", "m">>,
     <<"l", "i", "n", "k", "e", "d", "i", "n", ".", "c", "o", "m">>,
     <<"p", "i", "n", "t", "e", "r", "e", "s", "t", ".", "c", "o", "m">>,
     <<"y", "o", "u", "t", "u", "b", "e", ".", "c", "o", "m">>}

DynamicDefaults ==
    << <<"IsResponsive", I(0)>>, <<"IsURLRedirects", I(0)>>, <<"IsSelfRedirects", I(0)>>,
       <<"HasPopup", I(0)>>, <<"HasIFrame", I(0)>>, <<"IsFormSubmitExternal", I(0)>>,
       <<"HasSocialMediaPage", I(0)>>, <<"HasSubmitButton", I(0)>>,
       <<"HasHiddenFields", I(0)>>, <<"HasPasswordFields", I(0)>>,
       <<"ExternalLinks", L({})>> >>

\* The value each step computes from the rendered DOM when its WebDriver call answers.
\* A stale element is one whose get_attribute raises: the loop goes on to the next.
FormExternal(u, form, original_netloc) ==
    /\ ~form.stale
    /\ form.action # <<>>
    /\ With(urlparse(urljoin(u, form.action)), LAMBDA parsed_action :
         /\ parsed_action.ok
         /\ normalize_netloc(parsed_action.netloc) # <<>>
         /\ normalize_netloc(parsed_action.netloc) # original_netloc)
AnchorSocial(a) ==
    /\ ~a.stale
    /\ a.href # <<>>
    /\ With(urlparse(a.href), LAMBDA parsed_href :
         /\ parsed_href.ok
         /\ \E social \in social_media_domains :
                Contains(normalize_netloc(parsed_href.netloc), social))
JavascriptColon == <<"j", "a", "v", "a", "s", "c", "r", "i", "p", "t", ":">>
MailtoColon == <<"m", "a", "i", "l", "t", "o", ":">>
AnchorExternal(u, a, original_netloc) ==
    /\ ~a.stale
    /\ a.href # <<>>
    /\ ~StartsWith(Lower(Strip(a.href)), JavascriptColon)
    /\ ~StartsWith(Lower(Strip(a.href)), MailtoColon)
    /\ With(urlparse(urljoin(u, Strip(a.href))), LAMBDA parsed_href :
         /\ parsed_href.ok
         /\ normalize_netloc(parsed_href.netloc) # <<>>
         /\ normalize_netloc(parsed_href.netloc) # original_netloc)
OriginalNetloc(u) == normalize_netloc(urlparse(u).netloc)
SelfRedirect(parsed_original, parsed_current) ==
    /\ normalize_netloc(parsed_original.netloc) = normalize_netloc(parsed_current.netloc)
    /\ parsed_original.path # parsed_current.path
StepValue(step, u, dom) ==
    CASE step = "IsResponsive" -> B(dom.viewport > 0)
      [] step = "IsURLRedirects" -> B(dom.current_url # u)
      [] step = "IsSelfRedirects" -> B(SelfRedirect(urlparse(u), urlparse(dom.current_url)))
      [] step = "HasPopup" -> B(dom.handles > 1)
      [] step = "HasIFrame" -> B(dom.iframes > 0)
      [] step = "IsFormSubmitExternal" ->
             With(OriginalNetloc(u), LAMBDA original_netloc :
               B(\E i \in 1..Len(dom.forms) : FormExternal(u, dom.forms[i], original_netloc)))
      [] step = "HasSocialMediaPage" ->
             B(\E i \in 1..Len(dom.anchors) : AnchorSocial(dom.anchors[i]))
      [] step = "HasSubmitButton" -> B(dom.submit > 0)
      [] step = "HasHiddenFields" -> B(dom.hidden > 0)
      [] step = "HasPasswordFields" -> B(dom.password > 0)
      [] step = "ExternalLinks" ->
             With(OriginalNetloc(u), LAMBDA original_netloc :
               L({urljoin(u, Strip(dom.anchors[i].href)) :
                    i \in {j \in 1..Len(dom.anchors) :
                             AnchorExternal(u, dom.anchors[j], original_netloc)}}))

\* Steps 1 to 3 run in the outer try only; steps 4 to 11 have a try of their own.
UnguardedSteps == <<"IsResponsive", "IsURLRedirects", "IsSelfRedirects">>
GuardedSteps ==
    <<"HasPopup", "HasIFrame", "IsFormSubmitExternal", "HasSocialMediaPage",
      "HasSubmitButton", "HasHiddenFields", "HasPasswordFields", "ExternalLinks">>
WebDriverSteps ==
    {UnguardedSteps[i] : i \in 1..Len(UnguardedSteps)}
      \cup {GuardedSteps[i] : i \in 1..Len(GuardedSteps)}
\* Whether the WebDriver call (or the urlparse) of a step raises.
StepRaises(step, u, br) ==
    CASE step = "IsSelfRedirects" -> ~urlparse(br.dom.current_url).ok
      [] step = "ExternalLinks" ->
             "HasSocialMediaPage" \in br.raises /\ "ExternalLinks" \in br.raises
      [] OTHER -> step \in br.raises
SetSteps(feats, done, u, br) ==
    [i \in 1..Len(feats) |->
       IF feats[i][1] \in done
       THEN <<feats[i][1],
              IF StepRaises(feats[i][1], u, br) THEN Get(DynamicDefaults, feats[i][1], None)
              ELSE StepValue(feats[i][1], u, br.dom)>>
       ELSE feats[i]]
\* The first exception ends the unguarded steps: the steps before it have been stored.
RunUnguarded(steps, feats, u, br) ==
    With(FirstIdx(steps, {s \in WebDriverSteps : StepRaises(s, u, br)}), LAMBDA k :
      [exc |-> k # 0,
       val |-> SetSteps(feats, {steps[i] : i \in 1..(IF k = 0 THEN Len(steps) ELSE k - 1)},
                        u, br)])
\* A guarded step that raises stores its default; the next step runs.
RunGuarded(steps, feats, u, br) ==
    SetSteps(feats, {steps[i] : i \in 1..Len(steps)}, u, br)
\* The body of the try statement of extract_dynamic_features: the mapping it returns
\* and the driver variable as the finally clause finds it ("none" for None).
DynamicTryBody(u, br) ==
    IF "get_web_driver" \in br.raises
    THEN [val |-> DynamicDefaults, driver |-> "none"]
    ELSE IF ~urlparse(u).ok \/ "get" \in br.raises
    THEN [val |-> DynamicDefaults, driver |-> "open"]
    ELSE With(RunUnguarded(UnguardedSteps, DynamicDefaults, u, br), LAMBDA first :
           IF first.exc THEN [val |-> first.val, driver |-> "open"]
           ELSE [val |-> RunGuarded(GuardedSteps, first.val, u, br), driver |-> "open"])
\* finally: if driver: driver.quit(), an exception of quit itself being swallowed.
\* WebDriver.quit() ends the session whether or not it raises.
DynamicFinallyNoQuit(driver) == driver
DynamicFinally(driver) == IF driver # "none" THEN "quit" ELSE driver
extract_dynamic_features(u, br) ==
    With(DynamicTryBody(u, br), LAMBDA body :
      [val |-> body.val, session |-> DynamicFinally(body.driver)])

(***************************************************************************)
(* feature_derivation.  Counts and their ratios are computed; a number    *)
(* that is neither (entropy, compression ratio, fitted slope, regex        *)
(* matches) is held as Opaque, its value not being modelled.               *)
(***************************************************************************)
CountPresent(u, C) == Cardinality({c \in C : \E i \in 1..Len(u) : u[i] = c})
CountIn(u, C) == Cardinality({i \in 1..Len(u) : u[i] \in C})
AlnumChars == LowerLetters \cup UpperLetters \cup Digits
UrlComposition(u, url_length, letter_count, digit_count, special_count) ==
    << <<"URLComplexity", F(Cardinality(Chars(u)), url_length)>>,
       <<"CharacterComplexity", IF url_length > 1 THEN Opaque ELSE I(0)>>,
       <<"LetterCntInURL", I(letter_count)>>,
       <<"URLLetterRatio", F(letter_count, url_length)>>,
       <<"DigitCntInURL", I(digit_count)>>,
       <<"URLDigitRatio", F(digit_count, url_length)>>,
       <<"EqualCharCntInURL", I(CountIn(u, {"="}))>>,
       <<"QuesMarkCntInURL", I(CountIn(u, {"?"}))>>,
       <<"AmpCharCntInURL", I(CountIn(u, {"&"}))>>,
       <<"NumberOfHashtags", I(CountIn(u, {"#"}))>>,
       <<"OtherSpclCharCntInURL", I(special_count)>>,
       <<"URLOtherSpclCharRatio", F(special_count, url_length)>> >>
\* A count of the other special characters that does not leave out "#".
get_url_composition_features_hash(u) ==
    UrlComposition(u,
                   IF Len(u) > 0 THEN Len(u) ELSE 1,
                   CountIn(u, LowerLetters \cup UpperLetters),
                   CountIn(u, Digits),
                   Cardinality({i \in 1..Len(u) :
                                  u[i] \notin AlnumChars \cup {"=", "?", "&"}}))
get_url_composition_features(u) ==
    UrlComposition(u,
                   IF Len(u) > 0 THEN Len(u) ELSE 1,
                   CountIn(u, LowerLetters \cup UpperLetters),
                   CountIn(u, Digits),
                   Cardinality({i \in 1..Len(u) :
                                  u[i] \notin AlnumChars \cup {"=", "?", "&", "#"}}))
\* higuchi_fractal_dimension(url, kmax=10).  The curve of offset m at scale k has
\* n_max = floor((N - m - 1) / k) steps and is left out when n_max = 0; its length
\* is 0 exactly when the characters it visits are all the same.
KMax == 10
HiguchiKmax(N) == IF N \div 2 >= 1 THEN (IF KMax < N \div 2 THEN KMax ELSE N \div 2) ELSE 1
NMax(N, m, k) == (N - m - 1) \div k
CurveOffsets(N, k) == {m \in 0..(k - 1) : NMax(N, m, k) # 0}
CurveIsZero(u, m, k) ==
    \A i \in 1..NMax(Len(u), m, k) : u[m + i * k + 1] = u[m + (i - 1) * k + 1]
\* The scales k that append a mean curve length to L, and those whose mean is 0.
HiguchiScales(u) == {k \in 1..HiguchiKmax(Len(u)) : CurveOffsets(Len(u), k) # {}}
ZeroScales(u) ==
    {k \in HiguchiScales(u) : \A m \in CurveOffsets(Len(u), k) : CurveIsZero(u, m, k)}
\* np.polyfit(ln_k, lnL, 1) is given a system that is not finite when L holds one
\* scale (ln_k = [0]: the scaling of the Vandermonde columns divides 0 by 0) or a 0
\* (np.log(0) = -inf).  The least-squares solver then raises LinAlgError or returns
\* coefficients that are not finite, by build: fit is the one of the two it does.
DegenerateFit(u) == Cardinality(HiguchiScales(u)) < 2 \/ ZeroScales(u) # {}
FitOutcomes == {"raises", "nan"}
higuchi_fractal_dimension(u, fit) ==
    IF Len(u) < 2 THEN [exc |-> FALSE, val |-> I(0)]
    ELSE IF HiguchiScales(u) = {} THEN [exc |-> FALSE, val |-> I(0)]
    ELSE IF DegenerateFit(u) THEN [exc |-> fit = "raises", val |-> NaN]
    ELSE [exc |-> FALSE, val |-> Opaque]
Derived(u, fractal) ==
    Update(get_url_composition_features(u),
           << <<"ShannonEntropy", IF Len(u) = 0 THEN I(0) ELSE Opaque>>,
              <<"KolmogorovComplexity", IF Len(u) = 0 THEN I(0) ELSE Opaque>>,
              <<"FractalDimension", fractal>>,
              <<"HexPatternCnt", Opaque>>,
              <<"Base64PatternCnt", Opaque>> >>)
\* derive_features with the outcome of the fit, an exception of
\* higuchi_fractal_dimension leaving it.
derive_features_fit(u, fit) ==
    With(higuchi_fractal_dimension(u, fit), LAMBDA fractal :
      [exc |-> fractal.exc, val |-> IF fractal.exc THEN <<>> ELSE Derived(u, fractal.val)])
\* derive_features for the URLs of the collector runs, whose fit is regular
\* (they have two scales or more, none of length 0).
derive_features(u) == Derived(u, higuchi_fractal_dimension(u, "nan").val)

(***************************************************************************)
(* data_collector.URLFeatureCollector.  self.features is a dict of groups; *)
(* each collect method returns the dict it leaves, or exc when the adapter *)
(* raised (no method of the class catches).  w holds the outcomes of the   *)
(* external sources: w.tls, w.resp, w.br.                                  *)
(***************************************************************************)
REQUIRED_FEATURES ==
    <<"LengthOfURL", "URLComplexity", "CharacterComplexity", "DomainLengthOfURL",
      "IsDomainIP", "TLD", "TLDLength", "LetterCntInURL", "URLLetterRatio",
      "DigitCntInURL", "URLDigitRatio", "EqualCharCntInURL", "QuesMarkCntInURL",
      "AmpCharCntInURL", "OtherSpclCharCntInURL", "URLOtherSpclCharRatio",
      "NumberOfHashtags", "NumberOfSubdomains", "HavingPath", "PathLength",
      "HavingQuery", "HavingFragment", "HavingAnchor", "HasSSL", "IsUnreachable",
      "LineOfCode", "LongestLineLength", "HasTitle", "HasFavicon", "HasRobotsBlocked",
      "IsResponsive", "IsURLRedirects", "IsSelfRedirects", "HasDescription",
      "HasPopup", "HasIFrame", "IsFormSubmitExternal", "HasSocialMediaPage",
      "HasSubmitButton", "HasHiddenFields", "HasPasswordFields", "HasBankingKey",
      "HasPaymentKey", "HasCryptoKey", "HasCopyrightInfoKey ", "CntImages",
      "CntFilesCSS", "CntFilesJS", "CntSelfHRef", "CntEmptyRef", "CntExternalRef",
      "CntPopup", "CntIFrame", "UniqueFeatureCnt", "ShannonEntropy",
      "FractalDimension", "KolmogorovComplexity", "HexPatternCnt", "Base64PatternCnt">>

collect_domain_whois(f, u, w) ==
    [exc |-> FALSE, val |-> Put(f, "domain_whois", parse_domain(u))]
\* domain_whois.get("Domain", self.url), domain_whois being {} before the domain adapter ran.
SslDomain(f, u) == Get(Get(f, "domain_whois", <<>>), "Domain", S(u)).s
collect_ssl_hosting(f, u, w) ==
    [exc |-> FALSE,
     val |-> Put(f, "ssl_hosting",
                 << <<"HasSSL", Get(get_ssl_info(SslDomain(f, u), w.tls), "HasSSL", None)>> >>)]
collect_static_content(f, u, w) ==
    With(extract_static_features(u, w.resp), LAMBDA static_feats :
      [exc |-> static_feats.exc,
       val |-> IF static_feats.exc THEN f ELSE Put(f, "static_content", static_feats.val)])
collect_dynamic_content_keep(f, u, w) ==
    [exc |-> FALSE,
     val |-> Put(f, "dynamic_content", extract_dynamic_features(u, w.br).val)]
collect_dynamic_content(f, u, w) ==
    [exc |-> FALSE,
     val |-> Put(f, "dynamic_content",
                 Pop(extract_dynamic_features(u, w.br).val, "ExternalLinks"))]
collect_derived_only(f, u, w) ==
    [exc |-> FALSE, val |-> << <<"derived", derive_features(u)>> >>]
collect_derived(f, u, w) ==
    [exc |-> FALSE, val |-> Put(f, "derived", derive_features(u))]

Adapters == <<"domain_whois", "ssl_hosting", "static_content", "dynamic_content", "derived">>
RunAdapter(a, f, u, w) ==
    CASE a = "domain_whois" -> collect_domain_whois(f, u, w)
      [] a = "ssl_hosting" -> collect_ssl_hosting(f, u, w)
      [] a = "static_content" -> collect_static_content(f, u, w)
      [] a = "dynamic_content" -> collect_dynamic_content(f, u, w)
      [] a = "derived" -> collect_derived(f, u, w)
\* collect_all_features: the five methods in its order, the first exception leaving it.
Then(r, a, u, w) == IF r.exc THEN r ELSE RunAdapter(a, r.val, u, w)
collect_all_features(u, w) ==
    Then(Then(Then(Then(Then([exc |-> FALSE, val |-> <<>>],
        "domain_whois", u, w), "ssl_hosting", u, w), "static_content", u, w),
        "dynamic_content", u, w), "derived", u, w)

RECURSIVE flatten_features(_)
flatten_features(f) ==
    IF f = <<>> THEN <<>>
    ELSE Update(flatten_features(SubSeq(f, 1, Len(f) - 1)), f[Len(f)][2])

validate_all_present(f) == <<TRUE, <<>>, Len(flatten_features(f))>>
validate_ml_features(f) ==
    With(flatten_features(f), LAMBDA flattened :
      With(SelectSeq(REQUIRED_FEATURES, LAMBDA feat : ~Has(flattened, feat)), LAMBDA missing :
        IF missing # <<>> THEN <<FALSE, missing, Len(flattened)>>
        ELSE <<TRUE, <<>>, Len(flattened)>>))

\* tld_freq.csv: suffix -> learned frequency.
tld_mapping == << <<<<"c", "o", "m">>, F(1, 2)>> >>
PredictionValueRaw(flat_features, key) == Get(flat_features, key, I(0))
PredictionValue(flat_features, key) ==
    IF key = "TLD"
    THEN Get(tld_mapping, Get(flat_features, "TLD", S(<<>>)).s, I(0))
    ELSE Get(flat_features, key, I(0))
\* features_dict of get_prediction: the classifier's input, in schema order.
get_prediction_input(f) ==
    With(flatten_features(f), LAMBDA flat_features :
      [i \in 1..Len(REQUIRED_FEATURES) |->
         <<REQUIRED_FEATURES[i], PredictionValue(flat_features, REQUIRED_FEATURES[i])>>])

(***************************************************************************)
(* The external sources a run meets.                                       *)
(***************************************************************************)
NoHref == [hasHref |-> FALSE, href |-> <<>>, blank |-> FALSE, open |-> FALSE]
Anchor(href, blank, open) == [hasHref |-> TRUE, href |-> href, blank |-> blank, open |-> open]
DocPlain ==
    [unparsable |-> FALSE, lines |-> <<>>, title |-> FALSE, icon |-> FALSE,
     description |-> FALSE, noindex |-> FALSE, img |-> 0, css |-> 0, js |-> 0, iframe |-> 0,
     anchors |-> <<>>, banking |-> FALSE, payment |-> FALSE, crypto |-> FALSE,
     copyright |-> FALSE]
DocRich ==
    [unparsable |-> FALSE, lines |-> <<12, 40, 7>>, title |-> TRUE, icon |-> TRUE,
     description |-> TRUE, noindex |-> TRUE, img |-> 2, css |-> 1, js |-> 3, iframe |-> 1,
     anchors |-> <<Anchor(<<"/", "a", "b", "o", "u", "t">>, FALSE, FALSE),
                   Anchor(<<"#">>, TRUE, TRUE),
                   Anchor(<<"h", "t", "t", "p", ":", "/", "/", "e", "v", "i", "l", ".", "n", "e", "t", "/", "x">>, TRUE, TRUE),
                   Anchor(<<"h", "t", "t", "p", ":", "/", "/", "a", ".", "c", "o", "m", ".", "e", "v", "i", "l", ".", "n", "e", "t", "/">>, TRUE, FALSE),
                   NoHref>>,
     banking |-> TRUE, payment |-> FALSE, crypto |-> FALSE, copyright |-> TRUE]
DocBadHref == [DocRich EXCEPT !.anchors = <<Anchor(<<"h", "t", "t", "p", ":", "/", "/", "[">>, FALSE, FALSE)>>]
Docs == {DocPlain, DocRich, DocBadHref}
Responses == {[ok |-> FALSE, doc |-> DocPlain]} \cup {[ok |-> TRUE, doc |-> d] : d \in Docs}

TlsOutcomes == {[up |-> TRUE, days |-> 90], [up |-> FALSE, days |-> 0]}

Element(ref) == [stale |-> FALSE, action |-> ref, href |-> ref]
StaleElement == [stale |-> TRUE, action |-> <<>>, href |-> <<>>]
DomBare(u) ==
    [viewport |-> 0, current_url |-> u, handles |-> 1, iframes |-> 0, forms |-> <<>>,
     anchors |-> <<>>, submit |-> 0, hidden |-> 0, password |-> 0]
DomRich(u) ==
    [viewport |-> 1, current_url |-> <<"h", "t", "t", "p", ":", "/", "/", "a", ".", "c", "o", "m", "/", "l">>, handles |-> 2, iframes |-> 1,
     forms |-> <<StaleElement, Element(<<"h", "t", "t", "p", ":", "/", "/", "e", "v", "i", "l", ".", "n", "e", "t", "/", "s">>)>>,
     anchors |-> <<Element(<<"/", "a", "b", "o", "u", "t">>), StaleElement,
                   Element(<<"h", "t", "t", "p", ":", "/", "/", "w", "w", "w", ".", "f", "a", "c", "e", "b", "o", "o", "k", ".", "c", "o", "m", "/", "x">>),
                   Element(<<"h", "t", "t", "p", ":", "/", "/", "w", "w", "w", ".", "f", "a", "c", "e", "b", "o", "o", "k", ".", "c", "o", "m", "/", "x">>),
                   Element(<<"m", "a", "i", "l", "t", "o", ":", "a", "@", "b", ".", "n", "e", "t">>)>>,
     submit |-> 1, hidden |-> 2, password |-> 1]
DomBadUrl(u) == [DomRich(u) EXCEPT !.current_url = <<"h", "t", "t", "p", ":", "/", "/", "[">>]
\* A page that ends on the "www." form of http://a.com and links to its own site
\* in that form and in upper case, and one that ends on the upper-case form.
DomWww(u) ==
    [DomRich(u) EXCEPT
       !.current_url = <<"h", "t", "t", "p", ":", "/", "/", "w", "w", "w", ".", "a", ".", "c", "o", "m">>,
       !.anchors = <<Element(<<"h", "t", "t", "p", ":", "/", "/", "w", "w", "w", ".", "a", ".", "c", "o", "m", "/", "y">>),
                     Element(<<"H", "T", "T", "P", ":", "/", "/", "A", ".", "C", "O", "M", "/", "z">>),
                     Element(<<"h", "t", "t", "p", ":", "/", "/", "e", "v", "i", "l", ".", "n", "e", "t", "/", "s">>),
                     Element(<<"h", "t", "t", "p", ":", "/", "/", "e", "v", "i", "l", ".", "n", "e", "t", "/", "s">>)>>]
DomUpper(u) == [DomBare(u) EXCEPT !.current_url = <<"h", "t", "t", "p", ":", "/", "/", "A", ".", "C", "O", "M">>]
Doms(u) == {DomBare(u), DomRich(u), DomBadUrl(u), DomWww(u), DomUpper(u)}
WebDriverCalls ==
    {"get_web_driver", "get", "IsResponsive", "IsURLRedirects", "HasPopup", "HasIFrame",
     "IsFormSubmitExternal", "HasSocialMediaPage", "HasSubmitButton", "HasHiddenFields",
     "HasPasswordFields", "ExternalLinks", "quit"}
\* At most MaxRaises of the WebDriver calls of one run raise.
MaxRaises == 2
Browsers(u) ==
    {[raises |-> r, dom |-> d] :
       r \in {x \in SUBSET WebDriverCalls : Cardinality(x) <= MaxRaises}, d \in Doms(u)}
\* The browsers a whole pipeline run is checked with.
PipelineBrowsers(u) ==
    {[raises |-> r, dom |-> DomRich(u)] : r \in {{}, {"get_web_driver"}, {"IsURLRedirects"}}}
Worlds(u) ==
    {[tls |-> t, resp |-> r, br |-> b] :
       t \in TlsOutcomes, r \in Responses, b \in PipelineBrowsers(u)}

(***************************************************************************)
(* State.                                                                  *)
(*   url, world, pc, order, features, validation, prediction:              *)
(*       one URLFeatureCollector and the caller driving it;                *)
(*   durl, dbr, dpc, dfeats, driver, dresult:                              *)
(*       one call of extract_dynamic_features;                             *)
(*   _collector, heap, tpc, tret, tcalls:                                  *)
(*       the module global of model_feature_predict, the collectors        *)
(*       created so far, and the two callers of its functions;             *)
(*   aurl, aworld, apc, domain, results, infos, aout:                      *)
(*       one call of analyze_url;                                          *)
(*   nurl, ncall, nsrc, nlib, npc, nclock, nret:                           *)
(*       one network-bound call of an adapter;                             *)
(*   fname, fargs, fpc, fret:                                               *)
(*       one call of a function that reads no external source: its name,   *)
(*       its arguments, whether it has returned, and what it returned.     *)
(***************************************************************************)
VARIABLES url, world, pc, order, features, validation, prediction,
          durl, dbr, dpc, dfeats, driver, dresult,
          _collector, heap, tpc, tret, tcalls,
          aurl, aworld, apc, domain, results, infos, aout,
          nurl, ncall, nsrc, nlib, npc, nclock, nret,
          fname, fargs, fpc, fret

pipeVars == <<url, world, pc, order, features, validation, prediction>>
dynVars == <<durl, dbr, dpc, dfeats, driver, dresult>>
webVars == <<_collector, heap, tpc, tret, tcalls>>
anVars == <<aurl, aworld, apc, domain, results, infos, aout>>
netVars == <<nurl, ncall, nsrc, nlib, npc, nclock, nret>>
callVars == <<fname, fargs, fpc, fret>>
vars == <<pipeVars, dynVars, webVars, anVars, netVars, callVars>>

PipeIdle ==
    /\ url = <<>>
    /\ world = <<>>
    /\ pc = "idle"
    /\ order = <<>>
    /\ features = <<>>
    /\ validation = <<>>
    /\ prediction = <<>>
DynIdle ==
    /\ durl = <<>>
    /\ dbr = <<>>
    /\ dpc = "idle"
    /\ dfeats = <<>>
    /\ driver = "none"
    /\ dresult = <<>>
WebIdle ==
    /\ _collector = 0
    /\ heap = <<>>
    /\ tpc = <<>>
    /\ tret = <<>>
    /\ tcalls = <<>>
AnalyzeIdle ==
    /\ aurl = <<>>
    /\ aworld = <<>>
    /\ apc = "idle"
    /\ domain = <<>>
    /\ results = <<>>
    /\ infos = <<>>
    /\ aout = <<>>
NetIdle ==
    /\ nurl = <<>>
    /\ ncall = "none"
    /\ nsrc = "none"
    /\ nlib = FALSE
    /\ npc = "idle"
    /\ nclock = 0
    /\ nret = <<>>
NoReturn == [exc |-> FALSE, val |-> <<>>]
CallIdle ==
    /\ fname = "none"
    /\ fargs = <<>>
    /\ fpc = "idle"
    /\ fret = NoReturn

(***************************************************************************)
(* URLFeatureCollector: __init__, then collect_all_features calling the    *)
(* five collect methods in its fixed order; an exception of a method       *)
(* leaves collect_all_features at once (pc = "raised").                    *)
(***************************************************************************)
Called(a) == \E i \in 1..Len(order) : order[i] = a
Call(a, next) ==
    \E r \in {RunAdapter(a, features, url, world)} :
        /\ features' = r.val
        /\ order' = Append(order, a)
        /\ pc' = IF r.exc THEN "raised" ELSE next
        /\ UNCHANGED <<url, world, validation, prediction, dynVars, webVars, anVars, netVars, callVars>>

PipeInit ==
    /\ url \in Urls
    /\ world \in Worlds(url)
    /\ pc = "domain_whois"
    /\ order = <<>>
    /\ features = <<>>
    /\ validation = <<>>
    /\ prediction = <<>>

CollectDomainWhois == pc = "domain_whois" /\ Call("domain_whois", "ssl_hosting")
CollectSslHosting == pc = "ssl_hosting" /\ Call("ssl_hosting", "static_content")
CollectStaticContent == pc = "static_content" /\ Call("static_content", "dynamic_content")
CollectDynamicContent == pc = "dynamic_content" /\ Call("dynamic_content", "derived")
DeriveFeatures == pc = "derived" /\ Call("derived", "done")
ValidateMlFeatures ==
    /\ pc = "done"
    /\ validation' = validate_ml_features(features)
    /\ UNCHANGED <<url, world, pc, order, features, prediction, dynVars, webVars, anVars, netVars, callVars>>
GetPrediction ==
    /\ pc = "done"
    /\ prediction' = get_prediction_input(features)
    /\ UNCHANGED <<url, world, pc, order, features, validation, dynVars, webVars, anVars, netVars, callVars>>

Init == PipeInit /\ DynIdle /\ WebIdle /\ AnalyzeIdle /\ NetIdle /\ CallIdle
Next ==
    \/ CollectDomainWhois
    \/ CollectSslHosting
    \/ CollectStaticContent
    \/ CollectDynamicContent
    \/ DeriveFeatures
    \/ ValidateMlFeatures
    \/ GetPrediction
Spec == Init /\ [][Next]_vars

(***************************************************************************)
(* The five collect methods of one collector called once each, in any      *)
(* order, against the same external sources.                               *)
(***************************************************************************)
AnyOrderInit ==
    /\ url \in Urls
    /\ world \in Worlds(url)
    /\ pc = "any"
    /\ order = <<>>
    /\ features = <<>>
    /\ validation = <<>>
    /\ prediction = <<>>
AnyDomainWhois == pc = "any" /\ ~Called("domain_whois") /\ Call("domain_whois", "any")
AnySslHosting == pc = "any" /\ ~Called("ssl_hosting") /\ Call("ssl_hosting", "any")
AnyStaticContent == pc = "any" /\ ~Called("static_content") /\ Call("static_content", "any")
AnyDynamicContent == pc = "any" /\ ~Called("dynamic_content") /\ Call("dynamic_content", "any")
AnyDerived == pc = "any" /\ ~Called("derived") /\ Call("derived", "any")
InitAnyOrder == AnyOrderInit /\ DynIdle /\ WebIdle /\ AnalyzeIdle /\ NetIdle /\ CallIdle
NextAnyOrder ==
    \/ AnyDomainWhois
    \/ AnySslHosting
    \/ AnyStaticContent
    \/ AnyDynamicContent
    \/ AnyDerived
SpecAnyOrder == InitAnyOrder /\ [][NextAnyOrder]_vars

(***************************************************************************)
(* One call of extract_dynamic_features, exit path by exit path.  A        *)
(* return inside the try statement goes through the finally clause.        *)
(***************************************************************************)
DynInit ==
    /\ durl \in Urls
    /\ dbr \in Browsers(durl)
    /\ dpc = "get_web_driver"
    /\ dfeats = DynamicDefaults
    /\ driver = "none"
    /\ dresult = <<>>
DynGetWebDriver ==
    /\ dpc = "get_web_driver"
    /\ driver' = IF "get_web_driver" \in dbr.raises THEN "none" ELSE "open"
    /\ dpc' = IF "get_web_driver" \in dbr.raises THEN "finally" ELSE "get"
    /\ UNCHANGED <<durl, dbr, dfeats, dresult, pipeVars, webVars, anVars, netVars, callVars>>
DynGet ==
    /\ dpc = "get"
    /\ dpc' = IF ~urlparse(durl).ok \/ "get" \in dbr.raises THEN "finally" ELSE "unguarded"
    /\ UNCHANGED <<durl, dbr, dfeats, driver, dresult, pipeVars, webVars, anVars, netVars, callVars>>
DynUnguardedSteps ==
    /\ dpc = "unguarded"
    /\ \E r \in {RunUnguarded(UnguardedSteps, dfeats, durl, dbr)} :
           /\ dfeats' = r.val
           /\ dpc' = IF r.exc THEN "finally" ELSE "guarded"
    /\ UNCHANGED <<durl, dbr, driver, dresult, pipeVars, webVars, anVars, netVars, callVars>>
DynGuardedSteps ==
    /\ dpc = "guarded"
    /\ dfeats' = RunGuarded(GuardedSteps, dfeats, durl, dbr)
    /\ dpc' = "finally"
    /\ UNCHANGED <<durl, dbr, driver, dresult, pipeVars, webVars, anVars, netVars, callVars>>
DynFinallyReturn ==
    /\ dpc = "finally"
    /\ driver' = DynamicFinally(driver)
    /\ dresult' = dfeats
    /\ dpc' = "returned"
    /\ UNCHANGED <<durl, dbr, dfeats, pipeVars, webVars, anVars, netVars, callVars>>
InitDynamic == DynInit /\ PipeIdle /\ WebIdle /\ AnalyzeIdle /\ NetIdle /\ CallIdle
NextDynamic ==
    \/ DynGetWebDriver
    \/ DynGet
    \/ DynUnguardedSteps
    \/ DynGuardedSteps
    \/ DynFinallyReturn
SpecDynamic == InitDynamic /\ [][NextDynamic]_vars

(***************************************************************************)
(* model_feature_predict: collect_features and make_prediction called by   *)
(* two callers of one process, each for its own URL.  Both functions work  *)
(* on the module global _collector and read it anew at every use; a step   *)
(* is one statement of the function.  heap holds the URLFeatureCollector   *)
(* objects, _collector the index of the one the global names (0: None).    *)
(***************************************************************************)
Threads == {1, 2}
\* Callers 3 and 4 call one after the other; the URL of caller 4 makes
\* collect_all_features raise part-way (urlparse raises in the static adapter).
SeqCallers == {3, 4}
ThreadUrl == <<UrlPlain, UrlFull, UrlPlain, UrlBracket>>
\* Each caller makes at most MaxCalls calls.
MaxCalls == 2
WebWorld(u) ==
    [tls |-> [up |-> TRUE, days |-> 90], resp |-> [ok |-> TRUE, doc |-> DocRich],
     br |-> [raises |-> {}, dom |-> DomRich(u)]]
URLFeatureCollector(u) == [url |-> u, features |-> <<>>]
NoResult == [fn |-> "none", failed |-> FALSE, val |-> <<>>]

WebInit ==
    /\ _collector = 0
    /\ heap = <<>>
    /\ tpc = [t \in Threads |-> "idle"]
    /\ tret = [t \in Threads |-> NoResult]
    /\ tcalls = [t \in Threads |-> 0]

\* _collector = URLFeatureCollector(url)
NewCollector(t, next) ==
    /\ heap' = Append(heap, URLFeatureCollector(ThreadUrl[t]))
    /\ _collector' = Len(heap) + 1
    /\ tpc' = [tpc EXCEPT ![t] = next]
    /\ UNCHANGED <<tret, tcalls>>
\* _collector.collect_all_features(): the collector the global names now collects
\* for its own url; an exception goes to the except clause of the function.
CollectOnGlobal(t, fn, next) ==
    \E r \in {collect_all_features(heap[_collector].url, WebWorld(heap[_collector].url))} :
        /\ heap' = [heap EXCEPT ![_collector].features = r.val]
        /\ tpc' = [tpc EXCEPT ![t] = IF r.exc THEN "idle" ELSE next]
        /\ tret' = [tret EXCEPT ![t] = IF r.exc THEN [fn |-> fn, failed |-> TRUE, val |-> <<>>]
                                                ELSE @]
        /\ tcalls' = [tcalls EXCEPT ![t] = IF r.exc THEN @ + 1 ELSE @]
        /\ UNCHANGED _collector

CallCollectFeatures(t) ==
    /\ tpc[t] = "idle"
    /\ tcalls[t] < MaxCalls
    /\ tpc' = [tpc EXCEPT ![t] = "cf_new"]
    /\ tret' = [tret EXCEPT ![t] = NoResult]
    /\ UNCHANGED <<_collector, heap, tcalls, pipeVars, dynVars, anVars, netVars, callVars>>
CfNew(t) ==
    /\ tpc[t] = "cf_new"
    /\ NewCollector(t, "cf_collect")
    /\ UNCHANGED <<pipeVars, dynVars, anVars, netVars, callVars>>
CfCollect(t) ==
    /\ tpc[t] = "cf_collect"
    /\ CollectOnGlobal(t, "collect_features", "cf_validate")
    /\ UNCHANGED <<pipeVars, dynVars, anVars, netVars, callVars>>
\* sort_features_by_class and validate_ml_features of the collector the global names.
CfValidate(t) ==
    /\ tpc[t] = "cf_validate"
    /\ tret' = [tret EXCEPT ![t] = [fn |-> "collect_features", failed |-> FALSE,
                                    val |-> validate_ml_features(heap[_collector].features)]]
    /\ tpc' = [tpc EXCEPT ![t] = "idle"]
    /\ tcalls' = [tcalls EXCEPT ![t] = @ + 1]
    /\ UNCHANGED <<_collector, heap, pipeVars, dynVars, anVars, netVars, callVars>>

CallMakePrediction(t) ==
    /\ tpc[t] = "idle"
    /\ tcalls[t] < MaxCalls
    /\ tpc' = [tpc EXCEPT ![t] = "mp_check"]
    /\ tret' = [tret EXCEPT ![t] = NoResult]
    /\ UNCHANGED <<_collector, heap, tcalls, pipeVars, dynVars, anVars, netVars, callVars>>
\* if not _collector or _collector.url != url
MpCheck(t) ==
    /\ tpc[t] = "mp_check"
    /\ tpc' = [tpc EXCEPT ![t] = IF _collector = 0 \/ heap[_collector].url # ThreadUrl[t]
                                 THEN "mp_new" ELSE "mp_predict"]
    /\ UNCHANGED <<_collector, heap, tret, tcalls, pipeVars, dynVars, anVars, netVars, callVars>>
MpNew(t) ==
    /\ tpc[t] = "mp_new"
    /\ NewCollector(t, "mp_collect")
    /\ UNCHANGED <<pipeVars, dynVars, anVars, netVars, callVars>>
MpCollect(t) ==
    /\ tpc[t] = "mp_collect"
    /\ CollectOnGlobal(t, "make_prediction", "mp_predict")
    /\ UNCHANGED <<pipeVars, dynVars, anVars, netVars, callVars>>
\* prediction_data = _collector.get_prediction(...): the classifier's input is built
\* from the collector the global names now.
MpPredict(t) ==
    /\ tpc[t] = "mp_predict"
    /\ tret' = [tret EXCEPT ![t] = [fn |-> "make_prediction", failed |-> FALSE,
                                    val |-> get_prediction_input(heap[_collector].features)]]
    /\ tpc' = [tpc EXCEPT ![t] = "idle"]
    /\ tcalls' = [tcalls EXCEPT ![t] = @ + 1]
    /\ UNCHANGED <<_collector, heap, pipeVars, dynVars, anVars, netVars, callVars>>

InitWebapp == WebInit /\ PipeIdle /\ DynIdle /\ AnalyzeIdle /\ NetIdle /\ CallIdle
NextWebapp ==
    \E t \in Threads :
        \/ CallCollectFeatures(t)
        \/ CfNew(t)
        \/ CfCollect(t)
        \/ CfValidate(t)
        \/ CallMakePrediction(t)
        \/ MpCheck(t)
        \/ MpNew(t)
        \/ MpCollect(t)
        \/ MpPredict(t)
SpecWebapp == InitWebapp /\ [][NextWebapp]_vars

\* The same functions called one call after the other: a call starts only
\* when no call is running.
SeqInit ==
    /\ _collector = 0
    /\ heap = <<>>
    /\ tpc = [t \in SeqCallers |-> "idle"]
    /\ tret = [t \in SeqCallers |-> NoResult]
    /\ tcalls = [t \in SeqCallers |-> 0]
NoCallRunning == \A t \in DOMAIN tpc : tpc[t] = "idle"
SeqCollectFeatures(t) == NoCallRunning /\ CallCollectFeatures(t)
SeqMakePrediction(t) == NoCallRunning /\ CallMakePrediction(t)
InitWebappSeq == SeqInit /\ PipeIdle /\ DynIdle /\ AnalyzeIdle /\ NetIdle /\ CallIdle
NextWebappSeq ==
    \E t \in SeqCallers :
        \/ SeqCollectFeatures(t)
        \/ CfNew(t)
        \/ CfCollect(t)
        \/ CfValidate(t)
        \/ SeqMakePrediction(t)
        \/ MpCheck(t)
        \/ MpNew(t)
        \/ MpCollect(t)
        \/ MpPredict(t)
SpecWebappSeq == InitWebappSeq /\ [][NextWebappSeq]_vars

(***************************************************************************)
(* analyze_url: the lookups in its order, each in a try statement of its   *)
(* own, then the formatting and the return.  A lookup answers, fails (the  *)
(* guarded call of the adapter raises and the adapter returns an error     *)
(* result) or is malformed (the unguarded rest of the adapter raises on    *)
(* the answer).                                                            *)
(***************************************************************************)
LookupOutcomes == {"answers", "fails", "malformed"}
Lookup(outcome, answer) ==
    [exc |-> outcome = "malformed",
     val |-> IF outcome = "answers" THEN answer ELSE ErrorResult]
\* domain_whois has its own copy of format_domain_age.
whois_format_domain_age(age_days) ==
    With(age_days % 365, LAMBDA remaining_days :
      <<age_days \div 365, remaining_days \div 30, remaining_days % 30>>)
get_whois_info(d, outcome) ==
    Lookup(outcome, << <<"Registrar", S(<<"R">>)>>, <<"DomainAge", L({whois_format_domain_age(400)})>>,
                       <<"Country", S(<<"U", "S">>)>> >>)
get_passive_dns(d, outcome) ==
    Lookup(outcome, << <<"A_records", L({<<"1", ".", "2", ".", "3", ".", "4">>})>>,
                       <<"A_record_count", I(1)>> >>)
get_ip_geolocation_info(d, outcome) ==
    Lookup(outcome, << <<"IPAddresses", L({<<"1", ".", "2", ".", "3", ".", "4">>})>>,
                       <<"IPCount", I(1)>> >>)
AnalyzeWorlds(u) ==
    {[whois |-> a, dns |-> b, geo |-> c, tls |-> t, resp |-> r, br |-> d] :
       a \in LookupOutcomes, b \in LookupOutcomes, c \in LookupOutcomes,
       t \in TlsOutcomes, r \in Responses, d \in PipelineBrowsers(u)}
NoErrorsDetected == <<"No errors detected">>
\* if "error" in data: the error message; else the formatted details.
FormatForDisplay(data) == IF Has(data, "error") THEN "error-message" ELSE "details"

\* The truth value Python gives a value in a condition.
Truthy(v) ==
    CASE v.kind = "none" -> FALSE
      [] v.kind \in {"int", "float"} -> v.n # 0
      [] v.kind = "str" -> v.s # <<>>
      [] v.kind = "list" -> v.l # {}
      [] OTHER -> TRUE
\* format_content_analysis reads its two mappings with .get and looks for no
\* "error" key: what each line of the content tab shows.
format_content_analysis(dynamic, static) ==
    [kind |-> "details",
     redirects |-> Truthy(Get(dynamic, "IsURLRedirects", None)),
     responsive |-> Truthy(Get(dynamic, "IsResponsive", None)),
     ext_links |-> Get(dynamic, "ExternalLinks", L({})).l,
     copyright |-> Truthy(Get(static, "HasCopyrightInfoKey", None)),
     description |-> Truthy(Get(static, "HasDescription", None)),
     favicon |-> Truthy(Get(static, "HasFavicon", None))]
\* The "Resolved IP" box: the DNS result's IPAddresses, else the geolocation's.
IpBox(res) ==
    IF Truthy(Get(res.dns, "IPAddresses", None)) THEN Get(res.dns, "IPAddresses", None)
    ELSE IF Truthy(Get(res.geolocation, "IPAddresses", None))
    THEN Get(res.geolocation, "IPAddresses", None)
    ELSE S(<<"N", "/", "A">>)

AnalyzeInit ==
    /\ aurl \in Urls
    /\ aworld \in AnalyzeWorlds(aurl)
    /\ apc = "parse_domain"
    /\ domain = <<>>
    /\ results = [errors |-> <<>>, whois |-> <<>>, ssl |-> <<>>, dns |-> <<>>,
                  geolocation |-> <<>>, content |-> <<>>]
    /\ infos = [whois_info |-> <<>>, dns_info |-> <<>>, ssl_info |-> <<>>,
                geo_info |-> <<>>, dynamic |-> <<>>, static |-> <<>>]
    /\ aout = <<>>
AnalyzeParseDomain ==
    /\ apc = "parse_domain"
    /\ domain' = Get(parse_domain(aurl), "Domain", S(aurl)).s
    /\ apc' = "whois"
    /\ UNCHANGED <<aurl, aworld, results, infos, aout, pipeVars, dynVars, webVars, netVars, callVars>>
AnalyzeWhois ==
    /\ apc = "whois"
    /\ \E r \in {get_whois_info(domain, aworld.whois)} :
        /\ results' = IF r.exc
                      THEN [results EXCEPT !.errors = Append(@, "WHOIS lookup failed")]
                      ELSE [results EXCEPT !.whois = r.val]
        /\ infos' = [infos EXCEPT !.whois_info = r.val]
    /\ apc' = "dns"
    /\ UNCHANGED <<aurl, aworld, domain, aout, pipeVars, dynVars, webVars, netVars, callVars>>
AnalyzeDns ==
    /\ apc = "dns"
    /\ \E r \in {get_passive_dns(domain, aworld.dns)} :
        /\ results' = IF r.exc
                      THEN [results EXCEPT !.errors = Append(@, "DNS lookup failed")]
                      ELSE [results EXCEPT !.dns = r.val]
        /\ infos' = [infos EXCEPT !.dns_info = r.val]
    /\ apc' = "ssl"
    /\ UNCHANGED <<aurl, aworld, domain, aout, pipeVars, dynVars, webVars, netVars, callVars>>
AnalyzeSsl ==
    /\ apc = "ssl"
    /\ results' = [results EXCEPT !.ssl = get_ssl_info(domain, aworld.tls)]
    /\ infos' = [infos EXCEPT !.ssl_info = get_ssl_info(domain, aworld.tls)]
    /\ apc' = "geolocation"
    /\ UNCHANGED <<aurl, aworld, domain, aout, pipeVars, dynVars, webVars, netVars, callVars>>
AnalyzeGeolocation ==
    /\ apc = "geolocation"
    /\ \E r \in {get_ip_geolocation_info(domain, aworld.geo)} :
        /\ results' = IF r.exc
                      THEN [results EXCEPT !.errors = Append(@, "Geolocation lookup failed")]
                      ELSE [results EXCEPT !.geolocation = r.val]
        /\ infos' = [infos EXCEPT !.geo_info = r.val]
    /\ apc' = "content"
    /\ UNCHANGED <<aurl, aworld, domain, aout, pipeVars, dynVars, webVars, netVars, callVars>>
AnalyzeContent ==
    /\ apc = "content"
    /\ \E dyn \in {extract_dynamic_features(aurl, aworld.br).val},
          st \in {extract_static_features(aurl, aworld.resp)} :
        /\ results' = IF st.exc
                      THEN [results EXCEPT !.errors = Append(@, "Content analysis failed")]
                      ELSE [results EXCEPT !.content =
                                << <<"dynamic", L(Range(dyn))>>, <<"static", L(Range(st.val))>> >>]
        /\ infos' = IF st.exc THEN [infos EXCEPT !.dynamic = <<>>, !.static = <<>>]
                    ELSE [infos EXCEPT !.dynamic = dyn, !.static = st.val]
    /\ apc' = "format"
    /\ UNCHANGED <<aurl, aworld, domain, aout, pipeVars, dynVars, webVars, netVars, callVars>>
\* The formatting of the tabs and the returned tuple, its last member the error output.
AnalyzeFormatReturn ==
    /\ apc = "format"
    /\ aout' = [url |-> aurl,
                ip |-> IpBox(results),
                country |-> Get(infos.whois_info, "Country", S(<<"N", "/", "A">>)),
                domain_age |-> Get(infos.whois_info, "DomainAge", S(<<"N", "/", "A">>)),
                content_html |-> format_content_analysis(infos.dynamic, infos.static),
                whois_html |-> FormatForDisplay(infos.whois_info),
                dns_html |-> FormatForDisplay(infos.dns_info),
                ssl_html |-> FormatForDisplay(infos.ssl_info),
                geo_html |-> FormatForDisplay(infos.geo_info),
                https |-> Get(results.ssl, "HasSSL", I(0)) = I(1),
                errors |-> IF results.errors # <<>> THEN results.errors
                           ELSE NoErrorsDetected]
    /\ apc' = "returned"
    /\ UNCHANGED <<aurl, aworld, domain, results, infos, pipeVars, dynVars, webVars, netVars, callVars>>

InitAnalyze == AnalyzeInit /\ PipeIdle /\ DynIdle /\ WebIdle /\ NetIdle /\ CallIdle
NextAnalyze ==
    \/ AnalyzeParseDomain
    \/ AnalyzeWhois
    \/ AnalyzeDns
    \/ AnalyzeSsl
    \/ AnalyzeGeolocation
    \/ AnalyzeContent
    \/ AnalyzeFormatReturn
SpecAnalyze == InitAnalyze /\ [][NextAnalyze]_vars

(***************************************************************************)
(* One network-bound call of an adapter and the time it waits.  The source *)
(* answers, refuses (the primitive raises at once) or stays silent; a call *)
(* made with a timeout argument raises once that many seconds have passed. *)
(* whois.whois(domain) is called with no timeout argument: whether the      *)
(* installed library bounds the wait itself (nlib) is not decided by the   *)
(* adapter's code.  nret is what the adapter function returns.             *)
(***************************************************************************)
StaticFetchTimeout == 10
TlsTimeout == 5
DnsTimeout == 5
PageLoadTimeout == 30
\* The seconds counted for a call that has no timeout of its own.
MaxWait == 12

NetCalls == {"static_fetch", "tls", "whois", "dns", "page_load"}
NetSources == {"answers", "refuses", "silent"}
HasTimeout(call) == call # "whois"
TimeoutOf(call) ==
    CASE call = "static_fetch" -> StaticFetchTimeout
      [] call = "tls" -> TlsTimeout
      [] call = "dns" -> DnsTimeout
      [] call = "page_load" -> PageLoadTimeout
      [] call = "whois" -> MaxWait
NetDomain(u) == Get(parse_domain(u), "Domain", S(u)).s
\* What the adapter returns when its network call ends, answered or raising.
AdapterReturn(call, u, answered) ==
    CASE call = "static_fetch" ->
           extract_static_features(u, [ok |-> answered, doc |-> DocPlain])
      [] call = "tls" ->
           [exc |-> FALSE,
            val |-> get_ssl_info(NetDomain(u), [up |-> answered, days |-> 90])]
      [] call = "whois" ->
           get_whois_info(NetDomain(u), IF answered THEN "answers" ELSE "fails")
      [] call = "dns" ->
           get_passive_dns(NetDomain(u), IF answered THEN "answers" ELSE "fails")
      [] call = "page_load" ->
           [exc |-> FALSE,
            val |-> extract_dynamic_features(
                        u, [raises |-> IF answered THEN {} ELSE {"get"},
                            dom |-> DomRich(u)]).val]

NetInit ==
    /\ nurl \in Urls
    /\ ncall \in NetCalls
    /\ nsrc \in NetSources
    /\ nlib \in (IF ncall = "whois" THEN BOOLEAN ELSE {FALSE})
    /\ npc = "start"
    /\ nclock = 0
    /\ nret = <<>>
NetReturn(answered) ==
    /\ npc' = "returned"
    /\ nret' = AdapterReturn(ncall, nurl, answered)
    /\ UNCHANGED <<nurl, ncall, nsrc, nlib, nclock, pipeVars, dynVars, webVars, anVars, callVars>>
NetStart ==
    /\ npc = "start"
    /\ npc' = "waiting"
    /\ UNCHANGED <<nurl, ncall, nsrc, nlib, nclock, nret, pipeVars, dynVars, webVars, anVars, callVars>>
\* The conditions under which the waiting call ends.
Answered == npc = "waiting" /\ nsrc = "answers"
Refused == npc = "waiting" /\ nsrc = "refuses"
TimedOut ==
    /\ npc = "waiting"
    /\ nsrc = "silent"
    /\ HasTimeout(ncall)
    /\ nclock = TimeoutOf(ncall)
LibraryGaveUp ==
    /\ npc = "waiting"
    /\ nsrc = "silent"
    /\ ~HasTimeout(ncall)
    /\ nlib
NetAnswer == Answered /\ NetReturn(TRUE)
NetRefuse == Refused /\ NetReturn(FALSE)
NetTick ==
    /\ npc = "waiting"
    /\ nsrc = "silent"
    /\ nclock < TimeoutOf(ncall)
    /\ nclock' = nclock + 1
    /\ UNCHANGED <<nurl, ncall, nsrc, nlib, npc, nret, pipeVars, dynVars, webVars, anVars, callVars>>
NetTimeout == TimedOut /\ NetReturn(FALSE)
NetLibraryGivesUp == LibraryGaveUp /\ NetReturn(FALSE)

InitNet == NetInit /\ PipeIdle /\ DynIdle /\ WebIdle /\ AnalyzeIdle /\ CallIdle
NextNet ==
    \/ NetStart
    \/ NetAnswer
    \/ NetRefuse
    \/ NetTick
    \/ NetTimeout
    \/ NetLibraryGivesUp
\* A call that was issued runs, time passes while it waits, and a call whose
\* primitive has answered or raised returns (the adapter's code after the
\* call has no loop).  NetEnds is the step of the four returning actions; it
\* is enabled exactly when one of them is, AdapterReturn being total.
NetEnds == (Answered \/ Refused \/ TimedOut \/ LibraryGaveUp) /\ npc' = "returned"
SpecNet ==
    InitNet /\ [][NextNet]_vars /\ WF_vars(NetStart) /\ WF_vars(NetTick) /\ WF_npc(NetEnds)

(***************************************************************************)
(* The anchor counts of a fetched document, as computed by                 *)
(* Static_content_extractor.extract_meta_and_tags (base_domain being the   *)
(* netloc of the page's URL, as extract_static_features passes it) and by  *)
(* html_structural.parse_html_features.                                    *)
(***************************************************************************)
\* for a in soup.find_all('a', href=True): the class of one such anchor.
LinkClass(href, joined, base_netloc) ==
    IF href \in {<<>>, <<"#">>} THEN "empty"
    ELSE IF ~joined.ok THEN "raise"
    ELSE IF joined.netloc = base_netloc THEN "self"
    ELSE "external"
LinkCounts(classes) ==
    [exc |-> CountOf(classes, "raise") > 0,
     val |-> << <<"CntSelfHRef", I(CountOf(classes, "self"))>>,
                <<"CntEmptyRef", I(CountOf(classes, "empty"))>>,
                <<"CntExternalRef", I(CountOf(classes, "external"))>> >>]
\* The link counts of parse_html_features(html, url).
parse_html_features(doc, u) ==
    With(SelectSeq(doc.anchors, LAMBDA a : a.hasHref), LAMBDA anchors :
      LinkCounts([i \in 1..Len(anchors) |->
                    With(Strip(anchors[i].href), LAMBDA href :
                      LinkClass(href, urlparse(urljoin(u, href)), urlparse(u).netloc))]))

AnchorSamples ==
    {NoHref,
     Anchor(<<>>, FALSE, FALSE),
     Anchor(<<"#">>, FALSE, FALSE),
     Anchor(<<"#">>, TRUE, TRUE),
     Anchor(<<" ", "#">>, FALSE, FALSE),
     Anchor(<<"/", "a", "b", "o", "u", "t">>, TRUE, TRUE),
     Anchor(<<"/", "a", "b", "o", "u", "t">>, TRUE, FALSE),
     Anchor(<<"h", "t", "t", "p", ":", "/", "/", "a", ".", "c", "o", "m", "/", "x">>, FALSE, FALSE),
     Anchor(<<"h", "t", "t", "p", ":", "/", "/", "e", "v", "i", "l", ".", "n", "e", "t", "/", "x">>, FALSE, FALSE),
     Anchor(<<"h", "t", "t", "p", ":", "/", "/", "e", "v", "i", "l", ".", "n", "e", "t", "/", "x">>, TRUE, TRUE),
     Anchor(<<"h", "t", "t", "p", ":", "/", "/", "a", ".", "c", "o", "m", ".", "e", "v", "i", "l", ".", "n", "e", "t", "/">>, FALSE, FALSE),
     Anchor(<<"h", "t", "t", "p", ":", "/", "/", "[">>, FALSE, FALSE)}
\* A document holds at most MaxAnchors anchors.
MaxAnchors == 2
AnchorDocs ==
    {[DocPlain EXCEPT !.anchors = as] :
       as \in UNION {[1..n -> AnchorSamples] : n \in 0..MaxAnchors}}

AnchorsInit ==
    /\ fname \in {"extract_meta_and_tags", "parse_html_features"}
    /\ fargs \in [url : {UrlPlain, UrlFull}, doc : AnchorDocs]
    /\ fpc = "called"
    /\ fret = NoReturn
Return(r) ==
    /\ fpc = "called"
    /\ fpc' = "returned"
    /\ fret' = r
    /\ UNCHANGED <<fname, fargs, pipeVars, dynVars, webVars, anVars, netVars>>
ExtractMetaAndTags ==
    /\ fname = "extract_meta_and_tags"
    /\ Return(extract_meta_and_tags(fargs.doc, urlparse(fargs.url).netloc))
ParseHtmlFeatures ==
    /\ fname = "parse_html_features"
    /\ Return(parse_html_features(fargs.doc, fargs.url))

InitAnchors == AnchorsInit /\ PipeIdle /\ DynIdle /\ WebIdle /\ AnalyzeIdle /\ NetIdle
NextAnchors ==
    \/ ExtractMetaAndTags
    \/ ParseHtmlFeatures
SpecAnchors == InitAnchors /\ [][NextAnchors]_vars

(***************************************************************************)
(* get_prediction building the classifier's input from a collector on      *)
(* which any of the collect methods have run (in the order of              *)
(* collect_all_features), none of them raising.                            *)
(***************************************************************************)
ThenIf(r, a, called, u, w) == IF a \in called THEN Then(r, a, u, w) ELSE r
CollectedBy(called, u, w) ==
    ThenIf(ThenIf(ThenIf(ThenIf(ThenIf([exc |-> FALSE, val |-> <<>>],
        "domain_whois", called, u, w), "ssl_hosting", called, u, w),
        "static_content", called, u, w), "dynamic_content", called, u, w),
        "derived", called, u, w)
CollectorFeatures ==
    {r.val : r \in {c \in UNION {{CollectedBy(called, u, w) : w \in Worlds(u)} :
                                     called \in SUBSET Range(Adapters), u \in Urls} :
                       ~c.exc}}

PredictionInit ==
    /\ fname = "get_prediction"
    /\ fargs \in [features : CollectorFeatures]
    /\ fpc = "called"
    /\ fret = NoReturn
GetPredictionInput ==
    /\ fname = "get_prediction"
    /\ Return([exc |-> FALSE, val |-> get_prediction_input(fargs.features)])

InitPrediction == PredictionInit /\ PipeIdle /\ DynIdle /\ WebIdle /\ AnalyzeIdle /\ NetIdle
NextPrediction == GetPredictionInput
SpecPrediction == InitPrediction /\ [][NextPrediction]_vars

(***************************************************************************)
(* derive_features and extract_url_structure applied to a URL string: the  *)
(* short strings over a small alphabet, the URL of the __main__ example    *)
(* of feature_derivation, and http://a.com followed by the characters      *)
(* that open a path, a query and a fragment.                               *)
(***************************************************************************)
ExampleUrl ==
    <<"h", "t", "t", "p", "s", ":", "/", "/", "e", "x", "a", "m", "p", "l", "e", ".", "c", "o", "m", "/", "p", "a", "t", "h", "/", "p", "a", "g", "e", "?", "i", "d", "=", "1", "2", "3", "4", "&", "p", "a", "r", "a", "m", "=", "t", "e", "s", "t", "#", "s", "e", "c", "t", "i", "o", "n">>
\* The strings of at most n characters of alphabet.
StringsUpTo(alphabet, n) == UNION {[1..k -> alphabet] : k \in 0..n}
MaxShort == 4
MaxSuffix == 3
UrlStrings ==
    StringsUpTo({"a", "b", "/"}, MaxShort)
      \cup {UrlPlain \o suffix : suffix \in StringsUpTo({"/", "p", "?", "&", "#"}, MaxSuffix)}
      \cup {ExampleUrl}
      \cup Urls

UrlCallInit ==
    /\ fname \in {"derive_features", "extract_url_structure"}
    /\ fargs \in [url : UrlStrings]
    /\ fpc = "called"
    /\ fret = NoReturn
CallDeriveFeatures ==
    /\ fname = "derive_features"
    /\ \E fit \in FitOutcomes : Return(derive_features_fit(fargs.url, fit))
CallExtractUrlStructure ==
    /\ fname = "extract_url_structure"
    /\ Return(extract_url_structure(fargs.url))

InitUrlCall == UrlCallInit /\ PipeIdle /\ DynIdle /\ WebIdle /\ AnalyzeIdle /\ NetIdle
NextUrlCall ==
    \/ CallDeriveFeatures
    \/ CallExtractUrlStructure
SpecUrlCall == InitUrlCall /\ [][NextUrlCall]_vars

(***************************************************************************)
(* One call of format_domain_age, of ssl_hosting or of domain_whois, on a  *)
(* number of days: the age of a domain, or the days left on a certificate, *)
(* negative when it has expired.                                           *)
(***************************************************************************)
\* The days range over -MaxDays..MaxDays.
MaxDays == 800
FormatAgeInit ==
    /\ fname \in {"ssl_hosting.format_domain_age", "domain_whois.format_domain_age"}
    /\ fargs \in [age_days : (-MaxDays)..MaxDays]
    /\ fpc = "called"
    /\ fret = NoReturn
CallSslFormatDomainAge ==
    /\ fname = "ssl_hosting.format_domain_age"
    /\ Return([exc |-> FALSE, val |-> format_domain_age(fargs.age_days)])
CallWhoisFormatDomainAge ==
    /\ fname = "domain_whois.format_domain_age"
    /\ Return([exc |-> FALSE, val |-> whois_format_domain_age(fargs.age_days)])
InitFormatAge == FormatAgeInit /\ PipeIdle /\ DynIdle /\ WebIdle /\ AnalyzeIdle /\ NetIdle
NextFormatAge ==
    \/ CallSslFormatDomainAge
    \/ CallWhoisFormatDomainAge
SpecFormatAge == InitFormatAge /\ [][NextFormatAge]_vars

(***************************************************************************)
(* normalize_netloc applied to an authority, to its own result, and to a   *)
(* second authority: fret.val holds the results in that order.             *)
(***************************************************************************)
NetlocPrefixes ==
    {<<>>, WwwDot, <<"W", "W", "W", ".">>, <<"W", "w", "w", ".">>, <<" ">>}
NetlocHosts == {<<"a", ".", "c", "o">>, <<"A", ".", "c", "o">>, <<"A", ".", "C", "O">>}
Netlocs == {p \o q \o h : p \in NetlocPrefixes, q \in NetlocPrefixes, h \in NetlocHosts}
NormalizeInit ==
    /\ fname = "normalize_netloc"
    /\ fargs \in [netloc : Netlocs, other : Netlocs]
    /\ fpc = "called"
    /\ fret = NoReturn
NormalizeStep(from, to, x) ==
    /\ fname = "normalize_netloc"
    /\ fpc = from
    /\ fpc' = to
    /\ fret' = [exc |-> FALSE, val |-> Append(fret.val, normalize_netloc(x))]
    /\ UNCHANGED <<fname, fargs, pipeVars, dynVars, webVars, anVars, netVars>>
NormalizeNetloc == NormalizeStep("called", "once", fargs.netloc)
NormalizeResult == fpc = "once" /\ NormalizeStep("once", "twice", fret.val[1])
NormalizeOther == NormalizeStep("twice", "returned", fargs.other)
InitNormalize == NormalizeInit /\ PipeIdle /\ DynIdle /\ WebIdle /\ AnalyzeIdle /\ NetIdle
NextNormalize ==
    \/ NormalizeNetloc
    \/ NormalizeResult
    \/ NormalizeOther
SpecNormalize == InitNormalize /\ [][NextNormalize]_vars

(***************************************************************************)
(* Properties of the collector pipeline (Spec).                            *)
(***************************************************************************)
Complete(flat) ==
    \A i \in 1..Len(REQUIRED_FEATURES) :
        /\ Has(flat, REQUIRED_FEATURES[i])
        /\ Get(flat, REQUIRED_FEATURES[i], None) # None

\* C1: once collect_all_features has returned, whatever the outcomes of the
\* external sources, the flattened record holds every name of REQUIRED_FEATURES
\* with a value that is not None.
C1_RecordComplete ==
    pc = "done" => With(flatten_features(features), LAMBDA flat : Complete(flat))

\* C2: no adapter failure leaves collect_all_features as an exception: the
\* pipeline is never aborted by a raising adapter.
C2_NoFailureEscapes == pc # "raised"

\* C3: when the TLS connection fails, the record holds HasSSL = 0 (an integer,
\* not None, not absent) and the classifier input built from it holds 0 too.
C3_HasSslZeroOnTlsFailure ==
    (pc = "done" /\ ~world.tls.up) =>
        /\ Get(flatten_features(features), "HasSSL", None) = I(0)
        /\ prediction # <<>> => Get(prediction, "HasSSL", None) = I(0)

ContentDerived ==
    {"LineOfCode", "LongestLineLength", "HasTitle", "HasFavicon", "HasDescription",
     "HasRobotsBlocked", "CntImages", "CntFilesCSS", "CntFilesJS", "CntIFrame",
     "CntSelfHRef", "CntEmptyRef", "CntExternalRef", "CntPopup", "HasBankingKey",
     "HasPaymentKey", "HasCryptoKey", "HasCopyrightInfoKey ", "UniqueFeatureCnt"}
UrlStructural ==
    {"LengthOfURL", "HavingPath", "PathLength", "HavingQuery", "HavingFragment",
     "HavingAnchor"}
UnreachableShape(static) ==
    /\ Get(static, "IsUnreachable", None) = I(1)
    /\ \A k \in ContentDerived : Get(static, k, None) = I(0)
    /\ \A k \in UrlStructural : Has(static, k)

\* C4: when the fetch of the URL fails, what extract_static_features returned
\* holds IsUnreachable = 1, every content-derived feature with the value 0, and
\* the URL-structural features.
C4_UnreachableDefaults ==
    (Called("static_content") /\ pc # "raised" /\ ~world.resp.ok) =>
        UnreachableShape(Get(features, "static_content", <<>>))

RequiredIdx(k) == FirstIdx(REQUIRED_FEATURES, {k})
CollectedKeys(f) == UNION {Keys(f[g][2]) : g \in 1..Len(f)}
ValidationOf(f, v) ==
    /\ Range(v[2]) = Range(REQUIRED_FEATURES) \ CollectedKeys(f)
    /\ \A i, j \in 1..Len(v[2]) : i < j => RequiredIdx(v[2][i]) < RequiredIdx(v[2][j])
    /\ v[1] = (v[2] = <<>>)
    /\ v[3] = Cardinality(CollectedKeys(f))
RemoveKey(f, k) ==
    [g \in 1..Len(f) |-> <<f[g][1], SelectSeq(f[g][2], LAMBDA kv : kv[1] # k)>>]
RemovalReported(f) ==
    \A i \in 1..Len(REQUIRED_FEATURES) :
        With(validate_ml_features(RemoveKey(f, REQUIRED_FEATURES[i])), LAMBDA v :
            ~v[1] /\ v[2] = <<REQUIRED_FEATURES[i]>>)

\* C8: validate_ml_features returns (isValid, missing, count), missing being
\* exactly the REQUIRED_FEATURES names absent from the flattened record, in
\* schema order, isValid being true iff missing is empty and count the number
\* of keys of the flattened record; a complete record with one required key
\* removed is reported invalid with that key missing; the collected features
\* are left as they were.
C8_ValidationReport ==
    [][ValidateMlFeatures =>
         /\ features' = features
         /\ ValidationOf(features, validation')
         /\ validation'[1] => RemovalReported(features)]_vars
C8_Witness ==
    /\ validation # <<>>
    /\ ~validation[1]
    /\ Len(validation[2]) > 1
    /\ validation[3] > 0

(***************************************************************************)
(* Properties of the collect methods called in any order (SpecAnyOrder).   *)
(***************************************************************************)
DictEq(a, b) ==
    /\ Keys(a) = Keys(b)
    /\ \A k \in Keys(a) : Get(a, k, None) = Get(b, k, None)

OrderIdx(a) == FirstIdx(order, {a})
PredictionFor(u) == get_prediction_input(collect_all_features(u, WebWorld(u)).val)

\* C7: whatever the interleaving of the two callers, what make_prediction
\* returns to a caller is computed from the features collected for that
\* caller's URL.
C7_PredictionFromOwnUrl ==
    \A t \in Threads :
        (tret[t].fn = "make_prediction" /\ ~tret[t].failed) =>
            tret[t].val = PredictionFor(ThreadUrl[t])

(***************************************************************************)
(* Properties of analyze_url (SpecAnalyze).                                *)
(***************************************************************************)
\* The lookups of the call that failed, by the name the error output gives them.
LookupFailed(label) ==
    CASE label = "WHOIS lookup failed" -> aworld.whois # "answers"
      [] label = "DNS lookup failed" -> aworld.dns # "answers"
      [] label = "SSL check failed" -> Has(infos.ssl_info, "error")
      [] label = "Geolocation lookup failed" -> aworld.geo # "answers"
      [] label = "Content analysis failed" -> ~aworld.resp.ok \/ infos.static = <<>>
FailedLookups ==
    {label \in {"WHOIS lookup failed", "DNS lookup failed", "SSL check failed",
                "Geolocation lookup failed", "Content analysis failed"} :
       LookupFailed(label)}

\* C9: the error output analyze_url returns names every lookup that failed,
\* by raising or by returning an error result, and reads "No errors detected"
\* only when none failed.
C9_ErrorOutputNamesFailures ==
    apc = "returned" =>
        /\ FailedLookups \subseteq Range(aout.errors)
        /\ aout.errors = NoErrorsDetected => FailedLookups = {}

(***************************************************************************)
(* Properties of extract_dynamic_features (SpecDynamic).                   *)
(***************************************************************************)
\* C5: no state is reachable in which extract_dynamic_features has returned
\* and the browser session it created is still open.
C5_SessionQuitBeforeReturn == dpc = "returned" => driver # "open"
C5_Witness ==
    /\ dpc = "returned"
    /\ driver = "quit"
    /\ "IsURLRedirects" \in dbr.raises
    /\ "quit" \in dbr.raises

PageLoaded ==
    /\ "get_web_driver" \notin dbr.raises
    /\ "get" \notin dbr.raises
    /\ urlparse(durl).ok

\* C10: once the page has loaded, a flag whose computation fails is the only
\* one left at its default: every flag whose own computation does not fail
\* holds, on return, the value computed from the rendered DOM.
C10_OnlyFailedFlagDefaults ==
    (dpc = "returned" /\ PageLoaded) =>
        \A i \in 1..Len(dresult) :
            ~StepRaises(dresult[i][1], durl, dbr) =>
                dresult[i][2] = StepValue(dresult[i][1], durl, dbr.dom)

(***************************************************************************)
(* Properties of the static adapter inside the pipeline (Spec).            *)
(***************************************************************************)
\* C11: when the fetch succeeds, a failure to parse the fetched document does
\* not make extract_static_features fail: what it returned holds
\* IsUnreachable = 0 and the URL-structural features.  (A URL that urlparse
\* rejects is never fetched, so the case is one of a well-formed URL.)
C11_ParseFailureIsolated ==
    (order # <<>> /\ order[Len(order)] = "static_content" /\ urlparse(url).ok
       /\ world.resp.ok) =>
        /\ pc # "raised"
        /\ Get(Get(features, "static_content", <<>>), "IsUnreachable", None) = I(0)
        /\ \A k \in UrlStructural : Has(Get(features, "static_content", <<>>), k)

(***************************************************************************)
(* Properties of the network-bound calls (SpecNet).                        *)
(***************************************************************************)
FailureOutcome(call, ret) ==
    CASE call = "static_fetch" ->
           ~ret.exc /\ Get(ret.val, "IsUnreachable", None) = I(1)
      [] call \in {"tls", "whois", "dns"} -> ~ret.exc /\ Has(ret.val, "error")
      [] call = "page_load" -> ~ret.exc /\ ret.val = DynamicDefaults

Cnt(key) == Get(fret.val, key, None).n
AnchorsWithHref == {i \in 1..Len(fargs.doc.anchors) : fargs.doc.anchors[i].hasHref}

\* C13: for every parsed document the anchor classes partition the anchors
\* that have an href attribute: CntSelfHRef + CntEmptyRef + CntExternalRef is
\* the number of those anchors, an anchor without the attribute being counted
\* in no class.
C13_AnchorClassesPartition ==
    (fpc = "returned" /\ ~fret.exc) =>
        Cnt("CntSelfHRef") + Cnt("CntEmptyRef") + Cnt("CntExternalRef")
            = Cardinality(AnchorsWithHref)

(***************************************************************************)
(* Properties of the classifier input (SpecPrediction).                    *)
(***************************************************************************)
\* The entry the classifier input is to hold for a schema name, given the
\* flattened record.
ExpectedEntry(flat, key) ==
    IF key = "TLD"
    THEN IF Has(flat, "TLD") /\ Has(tld_mapping, Get(flat, "TLD", None).s)
         THEN Get(tld_mapping, Get(flat, "TLD", None).s, None)
         ELSE I(0)
    ELSE IF Has(flat, key) THEN Get(flat, key, None) ELSE I(0)

\* C14: the classifier input built by get_prediction has exactly one entry per
\* name of REQUIRED_FEATURES, in that order; its TLD entry is the frequency
\* of the record's suffix, or 0 when the suffix is not in the table or the
\* record has no TLD; every other entry is the record's value for the name,
\* or 0 when the record does not hold the name.
C14_InputFollowsSchema ==
    (fname = "get_prediction" /\ fpc = "returned") =>
        /\ Len(fret.val) = Len(REQUIRED_FEATURES)
        /\ \A i \in 1..Len(REQUIRED_FEATURES) :
             /\ fret.val[i][1] = REQUIRED_FEATURES[i]
             /\ fret.val[i][2]
                  = ExpectedEntry(flatten_features(fargs.features), REQUIRED_FEATURES[i])
\* A record with a suffix of the table, one without LineOfCode, is turned into
\* an input holding the learned frequency and 0.
C14_Witness ==
    /\ fname = "get_prediction"
    /\ fpc = "returned"
    /\ Get(flatten_features(fargs.features), "TLD", None) = S(<<"c", "o", "m">>)
    /\ ~Has(flatten_features(fargs.features), "LineOfCode")
    /\ Get(fret.val, "TLD", None) = F(1, 2)
    /\ Get(fret.val, "LineOfCode", None) = I(0)
    /\ Get(fret.val, "LengthOfURL", None) = I(Len(UrlPlain))

(***************************************************************************)
(* Properties of the dynamic features kept by the collector (Spec).        *)
(***************************************************************************)
DynamicFlags == Keys(DynamicDefaults) \ {"ExternalLinks"}
\* The links extract_dynamic_features returns for a page that loads as d.
ExternalLinksOf(u, d) ==
    Get(extract_dynamic_features(u, [raises |-> {}, dom |-> d]).val, "ExternalLinks", None).l
LinkDiffers(u, link) ==
    /\ urlparse(link).ok
    /\ normalize_netloc(urlparse(link).netloc) # <<>>
    /\ normalize_netloc(urlparse(link).netloc) # normalize_netloc(urlparse(u).netloc)

\* C15: after collect_dynamic_content the key ExternalLinks is absent from the
\* dynamic features the collector stores and from the flattened record, the
\* ten dynamic flags are present, and every link of the set the adapter
\* returns has a normalized authority that is not the page's.
C15_ExternalLinksAuxiliary ==
    (Called("dynamic_content") /\ pc # "raised") =>
        /\ ~Has(Get(features, "dynamic_content", <<>>), "ExternalLinks")
        /\ ~Has(flatten_features(features), "ExternalLinks")
        /\ Cardinality(DynamicFlags) = 10
        /\ DynamicFlags \subseteq Keys(Get(features, "dynamic_content", <<>>))
        /\ DynamicFlags \subseteq Keys(flatten_features(features))
        /\ \A d \in Doms(url) : \A link \in ExternalLinksOf(url, d) : LinkDiffers(url, link)
\* The adapter returned a link to another site for a page holding it twice
\* among links to its own site, and the collector stored no ExternalLinks.
C15_Witness ==
    /\ pc = "done"
    /\ url = UrlPlain
    /\ "get_web_driver" \notin world.br.raises
    /\ ExternalLinksOf(url, DomWww(url))
         = {<<"h", "t", "t", "p", ":", "/", "/", "e", "v", "i", "l", ".", "n", "e", "t", "/", "s">>}
    /\ ExternalLinksOf(url, world.br.dom) # {}
    /\ ~Has(Get(features, "dynamic_content", <<>>), "ExternalLinks")
    /\ Get(flatten_features(features), "HasPopup", None) = I(1)

(***************************************************************************)
(* Properties of the adapters' partial mappings (Spec).                    *)
(***************************************************************************)
\* What each adapter returns for the URL and the external sources of the run.
PartialOf(a) ==
    CASE a = "domain_whois" -> parse_domain(url)
      [] a = "ssl_hosting" -> get_ssl_info(NetDomain(url), world.tls)
      [] a = "static_content" -> extract_static_features(url, world.resp).val
      [] a = "dynamic_content" -> extract_dynamic_features(url, world.br).val
      [] a = "derived" -> derive_features(url)

\* C16: each feature name is produced by one adapter only: the key sets of
\* the mappings returned by parse_domain, the TLS adapter,
\* extract_static_features, extract_dynamic_features and derive_features are
\* pairwise disjoint.
C16_DisjointKeySets ==
    pc = "done" =>
        \A a, b \in Range(Adapters) :
            a # b => Keys(PartialOf(a)) \cap Keys(PartialOf(b)) = {}

\* Two URLs that are the same once a leading "www." of the authority and the
\* case of the letters are normalized away.
SameNormalized(a, b) ==
    /\ a.scheme = b.scheme
    /\ normalize_netloc(a.netloc) = normalize_netloc(b.netloc)
    /\ Lower(a.path) = Lower(b.path)
    /\ Lower(a.query) = Lower(b.query)
    /\ Lower(a.fragment) = Lower(b.fragment)
RedirectComputed ==
    /\ PageLoaded
    /\ urlparse(dbr.dom.current_url).ok
    /\ "IsResponsive" \notin dbr.raises
    /\ "IsURLRedirects" \notin dbr.raises

\* C17: IsURLRedirects is 1 exactly when the final URL differs from the
\* requested one after a leading "www." and the letter case are normalized
\* away: a final URL that differs by these only yields 0.
C17_RedirectAfterNormalizing ==
    (dpc = "returned" /\ RedirectComputed) =>
        Get(dresult, "IsURLRedirects", None)
            = B(~SameNormalized(urlparse(durl), urlparse(dbr.dom.current_url)))

(***************************************************************************)
(* Properties of the functions of the URL string (SpecUrlCall).            *)
(***************************************************************************)
DerivedKeys ==
    {"URLComplexity", "CharacterComplexity", "LetterCntInURL", "URLLetterRatio",
     "DigitCntInURL", "URLDigitRatio", "EqualCharCntInURL", "QuesMarkCntInURL",
     "AmpCharCntInURL", "OtherSpclCharCntInURL", "URLOtherSpclCharRatio",
     "NumberOfHashtags", "ShannonEntropy", "KolmogorovComplexity", "FractalDimension",
     "HexPatternCnt", "Base64PatternCnt"}

\* C18: for every URL string (the empty one, those of 1 to 3 characters and
\* those of one repeated character included) derive_features returns all of
\* its keys without raising, and FractalDimension is 0 when the string has
\* fewer than 2 characters or the Higuchi fit is degenerate: fewer than two
\* scales, or a curve length of 0.
C18_DeriveAlwaysSucceeds ==
    (fname = "derive_features" /\ fpc = "returned") =>
        /\ ~fret.exc
        /\ Keys(fret.val) = DerivedKeys
        /\ (Len(fargs.url) < 2 \/ Cardinality(HiguchiScales(fargs.url)) < 2
              \/ ZeroScales(fargs.url) # {}) =>
               Get(fret.val, "FractalDimension", None) = I(0)

\* The fragment of a URL string is what follows its first "#", its query what
\* follows the first "?" of the part before the fragment.
FragmentOf(u) == After(u, FirstIdx(u, {"#"}))
QueryOf(u) ==
    With(Before(u, FirstIdx(u, {"#"})), LAMBDA head : After(head, FirstIdx(head, {"?"})))
Occurrences(u, c) == Cardinality({i \in 1..Len(u) : u[i] = c})
StructureFlags(u, structure) ==
    /\ Get(structure, "HavingQuery", None) = B(QueryOf(u) # <<>>)
    /\ Get(structure, "HavingFragment", None) = B(FragmentOf(u) # <<>>)
    /\ Get(structure, "HavingAnchor", None) = B(FragmentOf(u) # <<>>)
    /\ u = ExampleUrl =>
         \A k \in {"HavingQuery", "HavingFragment", "HavingAnchor"} :
             Get(structure, k, None) = I(1)
SymbolCounts(u, derived) ==
    /\ Get(derived, "QuesMarkCntInURL", None) = I(Occurrences(u, "?"))
    /\ Get(derived, "AmpCharCntInURL", None) = I(Occurrences(u, "&"))
    /\ Get(derived, "NumberOfHashtags", None) = I(Occurrences(u, "#"))
    /\ u = ExampleUrl =>
         \A k \in {"QuesMarkCntInURL", "AmpCharCntInURL", "NumberOfHashtags"} :
             Get(derived, k, None) = I(1)

\* C19: for every URL that extract_url_structure and derive_features return
\* for, HavingQuery is 1 iff the URL has a non-empty query, HavingFragment and
\* HavingAnchor are 1 iff it has a non-empty fragment, and QuesMarkCntInURL,
\* AmpCharCntInURL and NumberOfHashtags are the numbers of "?", "&" and "#" in
\* it; the six are 1 for
\* "https://example.com/path/page?id=1234&param=test#section".
C19_QueryFragmentCounts ==
    (fpc = "returned" /\ ~fret.exc) =>
        /\ fname = "extract_url_structure" => StructureFlags(fargs.url, fret.val)
        /\ fname = "derive_features" => SymbolCounts(fargs.url, fret.val)
\* derive_features has returned for a URL with two "?" and an empty fragment.
C19_Witness ==
    /\ fname = "derive_features"
    /\ fpc = "returned"
    /\ ~fret.exc
    /\ fargs.url = UrlPlain \o <<"?", "?", "#">>
    /\ Get(fret.val, "QuesMarkCntInURL", None) = I(2)
    /\ Get(fret.val, "NumberOfHashtags", None) = I(1)

\* The anchors of the document whose stripped href is non-empty and not "#",
\* split by the authority of the href against the authority of the page.
LinkingAnchors ==
    {i \in AnchorsWithHref : Strip(fargs.doc.anchors[i].href) \notin {<<>>, <<"#">>}}
HrefAuthority(i) == urlparse(Strip(fargs.doc.anchors[i].href)).netloc
PageAuthority == urlparse(fargs.url).netloc
SelfAnchors == {i \in LinkingAnchors : HrefAuthority(i) \in {<<>>, PageAuthority}}
ExternalAnchors == LinkingAnchors \ SelfAnchors

\* C20: an anchor with a non-empty href other than "#" is counted as self
\* exactly when the href has no authority or its authority equals the page's,
\* and as external exactly when it has a different authority; an authority
\* that only contains the page's (page a.com, href on a.com.evil.net) is
\* external.
C20_SelfIffSameAuthority ==
    (fpc = "returned" /\ ~fret.exc) =>
        /\ Cnt("CntSelfHRef") = Cardinality(SelfAnchors)
        /\ Cnt("CntExternalRef") = Cardinality(ExternalAnchors)

\* The anchors that open in a new browsing context (target "_blank") and
\* carry an inline onclick handler with a window-opening call.
PopupAnchors ==
    {i \in 1..Len(fargs.doc.anchors) :
        fargs.doc.anchors[i].blank /\ fargs.doc.anchors[i].open}

\* C21: CntPopup is the number of anchors that have target "_blank" and an
\* inline onclick handler with a window-opening call, whatever their href
\* class (empty, self or external); an anchor lacking either is not counted.
C21_PopupWhateverHrefClass ==
    (fname = "extract_meta_and_tags" /\ fpc = "returned" /\ ~fret.exc) =>
        Cnt("CntPopup") = Cardinality(PopupAnchors)

\* The session could not be created, navigation failed, or a step outside
\* every inner try raised.
SessionFailed == "get_web_driver" \in dbr.raises
NavigationFailed == ~urlparse(durl).ok \/ "get" \in dbr.raises
UnguardedStepRaised ==
    \E i \in 1..Len(UnguardedSteps) : StepRaises(UnguardedSteps[i], durl, dbr)
TotalFailure == SessionFailed \/ NavigationFailed \/ UnguardedStepRaised
AllDynamicKeys(d) ==
    \A i \in 1..Len(DynamicDefaults) : Get(d, DynamicDefaults[i][1], None) # None

\* C22: on every exit path extract_dynamic_features returns a mapping with
\* the ten dynamic flags and ExternalLinks; when the adapter fails as a whole
\* (no browser session, navigation fails, or an unguarded step raises) every
\* flag is 0 and ExternalLinks is the empty list.
C22_TotalFailureAllDefaults ==
    dpc = "returned" =>
        /\ AllDynamicKeys(dresult)
        /\ TotalFailure => dresult = DynamicDefaults

(***************************************************************************)
(* Properties of the argument of the TLS adapter (SpecAnyOrder).           *)
(***************************************************************************)
\* The domain the domain adapter has resolved, empty when it has not run or
\* found none, and the host part of the raw URL.
ResolvedDomain == Get(Get(features, "domain_whois", <<>>), "Domain", S(<<>>)).s
RawUrlHost == LenientNetloc(url)
SslHostingStep == order' = Append(order, "ssl_hosting")

\* C23: the TLS adapter is called with the domain resolved by the domain
\* adapter and, when no domain has been resolved, with the host part of the
\* raw URL, never with the full URL string.
C23_TlsCalledWithDomainOrHost ==
    [][SslHostingStep =>
         SslDomain(features, url) = IF ResolvedDomain # <<>> THEN ResolvedDomain
                                    ELSE RawUrlHost]_vars

(***************************************************************************)
(* Properties of format_domain_age (SpecFormatAge).                        *)
(***************************************************************************)
\* Floor division and its remainder by repeated subtraction or addition.
RECURSIVE FloorDiv(_, _)
FloorDiv(a, b) ==
    IF a < 0 THEN FloorDiv(a + b, b) - 1
    ELSE IF a >= b THEN FloorDiv(a - b, b) + 1
    ELSE 0
FloorMod(a, b) == a - b * FloorDiv(a, b)
OtherCopy(age_days) ==
    IF fname = "ssl_hosting.format_domain_age" THEN whois_format_domain_age(age_days)
    ELSE format_domain_age(age_days)

\* C24: format_domain_age(d) yields years = d div 365, months = (d mod 365)
\* div 30 and days = (d mod 365) mod 30, so that years*365 + months*30 + days
\* = d with 0 <= days < 30 and 0 <= months <= 12 for every integer d, negative
\* ones included, and the copies of domain_whois and ssl_hosting agree.
C24_AgeDecomposition ==
    fpc = "returned" =>
        /\ fret.val[1] = FloorDiv(fargs.age_days, 365)
        /\ fret.val[2] = FloorDiv(FloorMod(fargs.age_days, 365), 30)
        /\ fret.val[3] = FloorMod(FloorMod(fargs.age_days, 365), 30)
        /\ fret.val[1] * 365 + fret.val[2] * 30 + fret.val[3] = fargs.age_days
        /\ fret.val[3] \in 0..29
        /\ fret.val[2] \in 0..12
        /\ fret.val = OtherCopy(fargs.age_days)
\* The certificate expired yesterday: -1 years, 12 months, 4 days.
C24_Witness ==
    /\ fname = "ssl_hosting.format_domain_age"
    /\ fpc = "returned"
    /\ fargs.age_days = -1
    /\ fret.val = <<-1, 12, 4>>

(***************************************************************************)
(* Properties of sequential calls of the web functions (SpecWebappSeq).    *)
(***************************************************************************)
CompleteCollection(u) == collect_all_features(u, WebWorld(u))
PredictedBy(t) == tret[t].fn = "make_prediction" /\ ~tret[t].failed

\* C25: make_prediction(url) computes its prediction only from a collector
\* on which collect_all_features ran to completion for that url: after any
\* sequence of collect_features and make_prediction calls, one that failed
\* part-way included, it never predicts from a partially filled collector.
C25_PredictsFromCompleteCollector ==
    \A t \in DOMAIN tret :
        PredictedBy(t) =>
            /\ ~CompleteCollection(ThreadUrl[t]).exc
            /\ tret[t].val = get_prediction_input(CompleteCollection(ThreadUrl[t]).val)

\* C26: after collect_all_features() has returned, validate_ml_features()
\* reports isValid = true exactly when the static HTTP fetch succeeded,
\* whatever the TLS and browser outcomes; when the fetch failed, the missing
\* list holds the content-derived required features of the static adapter,
\* each once, and nothing else.
C26_ValidIffFetched ==
    (pc = "done" /\ validation # <<>>) =>
        /\ validation[1] = world.resp.ok
        /\ ~world.resp.ok =>
             /\ Chars(validation[2]) = ContentDerived
             /\ Len(validation[2]) = Cardinality(ContentDerived)
\* The fetch failed, the TLS connection failed and no browser session could
\* be created: the report names the nineteen content-derived features.
C26_Witness ==
    /\ pc = "done"
    /\ validation # <<>>
    /\ ~world.resp.ok
    /\ ~world.tls.up
    /\ "get_web_driver" \in world.br.raises
    /\ ~validation[1]
    /\ Len(validation[2]) = 19

(***************************************************************************)
(* Properties of the tabs analyze_url returns (SpecAnalyze).               *)
(***************************************************************************)
ResultElements ==
    {"url", "ip", "country", "domain_age", "https", "whois_html", "dns_html",
     "ssl_html", "geo_html", "content_html", "errors"}
Tabs == {"whois", "dns", "geolocation", "content"}
\* The adapter behind a tab raised (its exception reached analyze_url).
AdapterRaised(tab) ==
    CASE tab = "whois" -> get_whois_info(domain, aworld.whois).exc
      [] tab = "dns" -> get_passive_dns(domain, aworld.dns).exc
      [] tab = "geolocation" -> get_ip_geolocation_info(domain, aworld.geo).exc
      [] tab = "content" -> extract_static_features(aurl, aworld.resp).exc
TabShows(tab) ==
    CASE tab = "whois" -> aout.whois_html
      [] tab = "dns" -> aout.dns_html
      [] tab = "geolocation" -> aout.geo_html
      [] tab = "content" -> aout.content_html.kind

\* C27: analyze_url returns its eleven elements for every combination of
\* adapter outcomes, and when an adapter raised, the tab of that adapter
\* renders the error message.
C27_RaisedAdapterRendersError ==
    apc = "returned" =>
        /\ DOMAIN aout = ResultElements
        /\ \A tab \in Tabs : AdapterRaised(tab) => TabShows(tab) = "error-message"

\* The key under which the static adapter stored the copyright flag, and the
\* flag it stored.
CopyrightKeysWritten ==
    Keys(infos.static) \cap {"HasCopyrightInfoKey", "HasCopyrightInfoKey "}
CopyrightFlagSet == \E k \in CopyrightKeysWritten : Get(infos.static, k, None) = I(1)

\* C28: the copyright feature is carried under one key from the static
\* adapter to REQUIRED_FEATURES and to the content report, so the report
\* shows copyright as detected exactly when extract_meta_and_tags set the
\* flag to 1.
C28_CopyrightShownIffSet ==
    apc = "returned" =>
        /\ CopyrightKeysWritten \subseteq Range(REQUIRED_FEATURES)
        /\ aout.content_html.copyright <=> CopyrightFlagSet

\* The seven composition counters and the class of characters each counts.
CompositionCounters ==
    {"LetterCntInURL", "DigitCntInURL", "EqualCharCntInURL", "QuesMarkCntInURL",
     "AmpCharCntInURL", "NumberOfHashtags", "OtherSpclCharCntInURL"}
AsciiLetters ==
    {"a", "b", "c", "d", "e", "f", "g", "h", "i", "j", "k", "l", "m", "n", "o", "p", "q",
     "r", "s", "t", "u", "v", "w", "x", "y", "z", "A", "B", "C", "D", "E", "F", "G", "H",
     "I", "J", "K", "L", "M", "N", "O", "P", "Q", "R", "S", "T", "U", "V", "W", "X", "Y",
     "Z"}
AsciiDigits == {"0", "1", "2", "3", "4", "5", "6", "7", "8", "9"}
CountedBy(counter, c) ==
    CASE counter = "LetterCntInURL" -> c \in AsciiLetters
      [] counter = "DigitCntInURL" -> c \in AsciiDigits
      [] counter = "EqualCharCntInURL" -> c = "="
      [] counter = "QuesMarkCntInURL" -> c = "?"
      [] counter = "AmpCharCntInURL" -> c = "&"
      [] counter = "NumberOfHashtags" -> c = "#"
      [] counter = "OtherSpclCharCntInURL" ->
             c \notin AsciiLetters \cup AsciiDigits \cup {"=", "?", "&", "#"}
RECURSIVE SumOver(_, _)
SumOver(counters, d) ==
    IF counters = {} THEN 0
    ELSE With(CHOOSE k \in counters : TRUE, LAMBDA k :
           Get(d, k, None).n + SumOver(counters \ {k}, d))

\* C29: the composition counters partition the URL: LetterCntInURL +
\* DigitCntInURL + EqualCharCntInURL + QuesMarkCntInURL + AmpCharCntInURL +
\* NumberOfHashtags + OtherSpclCharCntInURL is the length of the URL, every
\* character being counted in exactly one of the seven.
C29_CountersPartitionUrl ==
    (fname = "derive_features" /\ fpc = "returned" /\ ~fret.exc) =>
        /\ SumOver(CompositionCounters, fret.val) = Len(fargs.url)
        /\ \A k \in CompositionCounters :
             Get(fret.val, k, None) =
               I(Cardinality({i \in 1..Len(fargs.url) : CountedBy(k, fargs.url[i])}))
        /\ \A i \in 1..Len(fargs.url) :
             Cardinality({k \in CompositionCounters : CountedBy(k, fargs.url[i])}) = 1
\* derive_features has returned for the example URL: letters, digits, two
\* "=", one "?", "&" and "#" each, and other characters, 56 in all.
C29_Witness ==
    /\ fname = "derive_features"
    /\ fpc = "returned"
    /\ ~fret.exc
    /\ fargs.url = ExampleUrl
    /\ Get(fret.val, "EqualCharCntInURL", None) = I(2)
    /\ Get(fret.val, "DigitCntInURL", None) = I(4)
    /\ Get(fret.val, "OtherSpclCharCntInURL", None).n > 0
    /\ SumOver(CompositionCounters, fret.val) = 56

(***************************************************************************)
(* Properties of normalize_netloc (SpecNormalize).                         *)
(***************************************************************************)
CasePairs == {{"a", "A"}, {"c", "C"}, {"o", "O"}, {"w", "W"}}
RECURSIVE SameButCase(_, _)
SameButCase(a, b) ==
    IF a = <<>> \/ b = <<>> THEN a = b
    ELSE /\ \/ a[1] = b[1]
            \/ {a[1], b[1]} \in CasePairs
         /\ SameButCase(Tail(a), Tail(b))

\* C30: normalize_netloc is idempotent and case-insensitive: normalizing its
\* result changes nothing, and two authorities that differ only in letter
\* case ("WWW.Example.com" and "www.example.com") normalize to the same
\* value.
C30_NormalizeIdempotentCaseless ==
    (fname = "normalize_netloc" /\ fpc = "returned") =>
        /\ fret.val[2] = fret.val[1]
        /\ SameButCase(fargs.netloc, fargs.other) => fret.val[3] = fret.val[1]

====
